---- MODULE Spec2Model ----
(***************************************************************************)
(* A model of redis-rs: the RESP codec, the keyspace with lazy expiry, the *)
(* connection handler with Redis::execute, and the replica handshake.      *)
(*                                                                         *)
(* Bytes are integers 0..255 and text is its ASCII bytes, so that lengths, *)
(* framing and partial socket writes are those of the program.  An        *)
(* Option<T> is a sequence of length 0 (None) or 1 (Some).                 *)
(***************************************************************************)
EXTENDS Integers, Sequences, FiniteSets, TLC

----------------------------------------------------------------------------
(* Text constants of the program, as bytes.                                *)

CRLF == <<13, 10>>                                      \* "\r\n"
T_PING == <<80, 73, 78, 71>>                            \* "PING"
T_ping == <<112, 105, 110, 103>>                        \* "ping"
T_ECHO == <<69, 67, 72, 79>>                            \* "ECHO"
T_echo == <<101, 99, 104, 111>>                         \* "echo"
T_GET == <<71, 69, 84>>                                 \* "GET"
T_get == <<103, 101, 116>>                              \* "get"
T_SET == <<83, 69, 84>>                                 \* "SET"
T_set == <<115, 101, 116>>                              \* "set"
T_CONFIG == <<67, 79, 78, 70, 73, 71>>                  \* "CONFIG"
T_config == <<99, 111, 110, 102, 105, 103>>             \* "config"
T_KEYS == <<75, 69, 89, 83>>                            \* "KEYS"
T_keys == <<107, 101, 121, 115>>                        \* "keys"
T_INFO == <<73, 78, 70, 79>>                            \* "INFO"
T_info == <<105, 110, 102, 111>>                        \* "info"
T_REPLCONF == <<82, 69, 80, 76, 67, 79, 78, 70>>        \* "REPLCONF"
T_replconf == <<114, 101, 112, 108, 99, 111, 110, 102>> \* "replconf"
T_PSYNC == <<80, 83, 89, 78, 67>>                       \* "PSYNC"
T_psync == <<112, 115, 121, 110, 99>>                   \* "psync"
T_PX == <<80, 88>>                                      \* "PX"
T_px == <<112, 120>>                                    \* "px"
T_all == <<97, 108, 108>>                               \* "all"
T_replication == <<114, 101, 112, 108, 105, 99, 97, 116, 105, 111, 110>>
T_REPLICATION == <<82, 69, 80, 76, 73, 67, 65, 84, 73, 79, 78>>
T_PONG == <<80, 79, 78, 71>>                            \* "PONG"
T_master == <<109, 97, 115, 116, 101, 114>>             \* "master"
T_slave == <<115, 108, 97, 118, 101>>                   \* "slave"
T_listening_port == <<108, 105, 115, 116, 101, 110, 105, 110, 103, 45, 112, 111, 114, 116>>
T_capa == <<99, 97, 112, 97>>                           \* "capa"
T_psync2 == <<112, 115, 121, 110, 99, 50>>              \* "psync2"
T_qmark == <<63>>                                       \* "?"
T_minus1 == <<45, 49>>                                  \* "-1"

\* "8371b4fb1155b71f4a04d3e1bc3e18c4a990aeeb", the replid of a primary
PrimaryReplId ==
    <<56, 51, 55, 49, 98, 52, 102, 98, 49, 49, 53, 53, 98, 55, 49, 102, 52, 97,
      48, 52, 100, 51, 101, 49, 98, 99, 51, 101, 49, 56, 99, 52, 97, 57, 57, 48,
      97, 101, 101, 98>>

\* The bytes hex::decode gives for the hard-coded empty snapshot (88 bytes).
EmptyRdb ==
    <<82, 69, 68, 73, 83, 48, 48, 49, 49, 250, 9, 114, 101, 100, 105, 115, 45,
      118, 101, 114, 5, 55, 46, 50, 46, 48, 250, 10, 114, 101, 100, 105, 115,
      45, 98, 105, 116, 115, 192, 64, 250, 5, 99, 116, 105, 109, 101, 194, 109,
      8, 188, 101, 250, 8, 117, 115, 101, 100, 45, 109, 101, 109, 194, 176,
      196, 16, 0, 250, 8, 97, 111, 102, 45, 98, 97, 115, 101, 192, 0, 255, 240,
      110, 59, 254, 192, 255, 90, 162>>

----------------------------------------------------------------------------
(* Number formatting and parsing.                                          *)

RECURSIVE Decimal(_)
\* format!("{}", n) of an unsigned integer
Decimal(n) ==
    IF n < 10 THEN <<48 + n>> ELSE Decimal(n \div 10) \o <<48 + (n % 10)>>

IsDigits(s) == Len(s) > 0 /\ \A i \in 1..Len(s) : s[i] \in 48..57

RECURSIVE DigitsVal(_)
DigitsVal(s) ==
    IF s = <<>> THEN 0
    ELSE 10 * DigitsVal(SubSeq(s, 1, Len(s) - 1)) + (s[Len(s)] - 48)

\* str::parse::<usize>() / ::<u64>(): Some(value) or None.  Rust accepts one
\* leading '+' before the digits.
ParseUnsigned(s) ==
    IF IsDigits(s) THEN <<DigitsVal(s)>>
    ELSE IF Len(s) > 1 /\ s[1] = 43 /\ IsDigits(Tail(s)) THEN <<DigitsVal(Tail(s))>>
    ELSE <<>>

----------------------------------------------------------------------------
(* RedisDataType and its codec (redis_commands.rs).                        *)

SimpleString(s) == [t |-> "SimpleString", s |-> s, a |-> <<>>]
BulkString(s) == [t |-> "BulkString", s |-> s, a |-> <<>>]
Array(items) == [t |-> "Array", s |-> <<>>, a |-> items]

RECURSIVE DataSerialize(_)
RECURSIVE DataSerializeAll(_)
\* RedisDataType::serialize
DataSerialize(d) ==
    IF d.t = "SimpleString" THEN <<43>> \o d.s \o CRLF
    ELSE IF d.t = "BulkString" THEN <<36>> \o Decimal(Len(d.s)) \o CRLF \o d.s \o CRLF
    ELSE <<42>> \o Decimal(Len(d.a)) \o CRLF \o DataSerializeAll(d.a)

DataSerializeAll(items) ==
    IF items = <<>> THEN <<>>
    ELSE DataSerialize(Head(items)) \o DataSerializeAll(Tail(items))

RECURSIVE SplitFrom(_, _, _)
SplitFrom(data, i, cur) ==
    IF i > Len(data) THEN <<cur>>
    ELSE IF data[i] = 13 /\ i < Len(data) /\ data[i + 1] = 10
         THEN <<cur>> \o SplitFrom(data, i + 2, <<>>)
         ELSE SplitFrom(data, i + 1, Append(cur, data[i]))

\* data.split("\r\n"): the tokens between the separators, empty ones included
SplitCRLF(data) == SplitFrom(data, 1, <<>>)

RECURSIVE DataParseReq(_, _, _, _, _)
\* RedisDataType::parse_req(arr_len, tokens), from the state of its while loop:
\* the iterator is at token i, `items` is redis_data_stream.  arrLen is an
\* Option.  The result is the vector, the iterator's position after the call,
\* and whether assert_eq! panicked.
DataParseReq(arrLen, toks, i, items, count) ==
    IF i > Len(toks) THEN [items |-> items, i |-> i, panic |-> FALSE]
    ELSE
      LET tok == toks[i]
          num == IF tok = <<>> THEN <<>> ELSE ParseUnsigned(Tail(tok))
          isArr == tok # <<>> /\ tok[1] = 42 /\ num # <<>>
          isBulk == tok # <<>> /\ tok[1] = 36 /\ num # <<>> /\ i < Len(toks)
          sub == IF isArr THEN DataParseReq(num, toks, i + 1, <<>>, 0)
                 ELSE [items |-> <<>>, i |-> i + 1, panic |-> FALSE]
          panic == \/ isArr /\ sub.panic
                   \/ isBulk /\ Len(toks[i + 1]) # num[1]
          items2 == IF tok # <<>> /\ tok[1] = 43 THEN Append(items, SimpleString(Tail(tok)))
                    ELSE IF isArr THEN Append(items, Array(sub.items))
                    ELSE IF isBulk THEN Append(items, BulkString(toks[i + 1]))
                    ELSE items
          \* a bulk header as the last token consumes the iterator's None
          i2 == IF isArr THEN sub.i
                ELSE IF tok # <<>> /\ tok[1] = 36 /\ num # <<>> THEN i + 2
                ELSE i + 1
      IN IF panic THEN [items |-> items, i |-> i, panic |-> TRUE]
         ELSE IF arrLen # <<>> /\ count + 1 = arrLen[1]
              THEN [items |-> items2, i |-> i2, panic |-> FALSE]
              ELSE DataParseReq(arrLen, toks, i2, items2, count + 1)

\* RedisDataType::deserialize: Some(the last top-level frame), or a panic
\* (assert_eq!, or pop().unwrap() of an empty vector).
DataDeserialize(data) ==
    LET r == DataParseReq(<<>>, SplitCRLF(data), 1, <<>>, 0)
    IN IF r.panic \/ r.items = <<>> THEN [panic |-> TRUE, v |-> <<>>]
       ELSE [panic |-> FALSE, v |-> <<r.items[Len(r.items)]>>]

----------------------------------------------------------------------------
(* Command and its codec (redis_commands.rs).                              *)

\* A Command: op names the variant, a and b are its strings, exp is Set's
\* Option<SystemTime>.
Cmd(op, a, b, exp) == [op |-> op, a |-> a, b |-> b, exp |-> exp]
Ping == Cmd("Ping", <<>>, <<>>, <<>>)
Echo(m) == Cmd("Echo", m, <<>>, <<>>)
Get(k) == Cmd("Get", k, <<>>, <<>>)
Set(k, v, exp) == Cmd("Set", k, v, exp)
ConfigGet(k) == Cmd("ConfigGet", k, <<>>, <<>>)
Keys(p) == Cmd("Keys", p, <<>>, <<>>)
Info(s) == Cmd("Info", s, <<>>, <<>>)
ReplConf(k, v) == Cmd("ReplConf", k, v, <<>>)
Psync(id, off) == Cmd("Psync", id, off, <<>>)

\* "${}\r\n{}\r\n" of s.len() and s
BulkFmt(s) == <<36>> \o Decimal(Len(s)) \o CRLF \o s \o CRLF

\* Command::serialize: Some(bytes), or None where the code is todo!() and panics
CommandSerialize(cmd) ==
    IF cmd.op = "Echo" THEN <<(<<42, 50>> \o CRLF \o BulkFmt(T_ECHO) \o BulkFmt(cmd.a))>>
    ELSE IF cmd.op = "Ping" THEN <<(<<42, 49>> \o CRLF \o BulkFmt(T_PING))>>
    ELSE IF cmd.op = "ReplConf"
         THEN <<(<<42, 51>> \o CRLF \o BulkFmt(T_REPLCONF) \o BulkFmt(cmd.a) \o BulkFmt(cmd.b))>>
    ELSE IF cmd.op = "Psync"
         THEN <<(<<42, 51>> \o CRLF \o BulkFmt(T_PSYNC) \o BulkFmt(cmd.a) \o BulkFmt(cmd.b))>>
    ELSE <<>>

\* Command::peek_next_string: Some(string) when the iterator's next item is a string
PeekNextString(items, i) ==
    IF i <= Len(items) /\ items[i].t # "Array" THEN <<items[i].s>> ELSE <<>>

\* Command::get_next_string: the same, and the iterator moves past the item
GetNextString(items, i) == PeekNextString(items, i)

IsVerb(s, upper, lower) == s = upper \/ s = lower

RECURSIVE CommandParseReq(_, _, _, _)
\* Command::parse_req(data_stream), from the state of its while loop: the
\* iterator is at item i and `cmds` is commands.  t is SystemTime::now().
\* The result is the commands and whether an unwrap() panicked.
CommandParseReq(items, i, cmds, t) ==
    IF i > Len(items) THEN [cmds |-> cmds, panic |-> FALSE]
    ELSE
      LET item == items[i]
          str == item.s
          s1 == GetNextString(items, i + 1)
          s2 == GetNextString(items, i + 2)
          s3 == PeekNextString(items, i + 3)
          s4 == GetNextString(items, i + 4)
          hasPx == s3 # <<>> /\ IsVerb(s3[1], T_PX, T_px)
          dur == IF s4 = <<>> THEN <<>> ELSE ParseUnsigned(s4[1])
          nested == CommandParseReq(item.a, 1, <<>>, t)
          Emit(c, n) == CommandParseReq(items, i + n, Append(cmds, c), t)
          Panic == [cmds |-> cmds, panic |-> TRUE]
      IN IF item.t = "Array"
           THEN IF nested.panic THEN Panic
                ELSE CommandParseReq(items, i + 1, cmds \o nested.cmds, t)
         ELSE IF IsVerb(str, T_PING, T_ping) THEN Emit(Ping, 1)
         ELSE IF IsVerb(str, T_ECHO, T_echo)
           THEN IF s1 = <<>> THEN Panic ELSE Emit(Echo(s1[1]), 2)
         ELSE IF IsVerb(str, T_GET, T_get)
           THEN IF s1 = <<>> THEN Panic ELSE Emit(Get(s1[1]), 2)
         ELSE IF IsVerb(str, T_SET, T_set)
           THEN IF s1 = <<>> \/ s2 = <<>> THEN Panic
                ELSE IF hasPx
                  THEN IF dur = <<>> THEN Panic
                       ELSE Emit(Set(s1[1], s2[1], <<t + dur[1]>>), 5)
                  ELSE Emit(Set(s1[1], s2[1], <<>>), 3)
         ELSE IF IsVerb(str, T_CONFIG, T_config)
           THEN IF s1 = <<>> THEN Panic
                ELSE IF IsVerb(s1[1], T_GET, T_get)
                  THEN IF s2 = <<>> THEN Panic ELSE Emit(ConfigGet(s2[1]), 3)
                  ELSE CommandParseReq(items, i + 2, cmds, t)
         ELSE IF IsVerb(str, T_KEYS, T_keys)
           THEN IF s1 = <<>> THEN Panic ELSE Emit(Keys(s1[1]), 2)
         ELSE IF IsVerb(str, T_INFO, T_info)
           THEN IF s1 # <<>> /\ IsVerb(s1[1], T_replication, T_REPLICATION)
                  THEN Emit(Info(s1[1]), 1)
                  ELSE Emit(Info(T_all), 1)
         ELSE IF IsVerb(str, T_REPLCONF, T_replconf)
           THEN IF s1 = <<>> \/ s2 = <<>> THEN Panic ELSE Emit(ReplConf(s1[1], s2[1]), 3)
         ELSE IF IsVerb(str, T_PSYNC, T_psync)
           THEN IF s1 = <<>> \/ s2 = <<>> THEN Panic ELSE Emit(Psync(s1[1], s2[1]), 3)
         ELSE CommandParseReq(items, i + 1, cmds, t)

\* Command::deserialize(req) at time t: the commands, or a panic (of the data
\* parser, of "Invalid data type" for a frame that is no array, of an unwrap).
CommandDeserialize(req, t) ==
    LET d == DataDeserialize(req)
    IN IF d.panic \/ d.v[1].t # "Array" THEN [cmds |-> <<>>, panic |-> TRUE]
       ELSE CommandParseReq(d.v[1].a, 1, <<>>, t)

----------------------------------------------------------------------------
(* Bounds of the model and the inputs it draws.                            *)

MaxSends == 3        \* buffers the peers send over one run
MaxTime == 2         \* the clock runs 0..MaxTime
MaxPartial == 1      \* try_write calls that accept only part of the buffer
MaxCut == 1          \* a partial try_write accepts 1..MaxCut bytes
BufSize == 512       \* let mut buf = [0; 512]

MasterConn == 0
HsConn == 1
ClientConns == {1, 2}
Conns == {MasterConn} \cup ClientConns

KeySet == {<<97>>, <<98>>}     \* "a", "b"
ValSet == {<<118>>, <<119>>}   \* "v", "w"
T_star == <<42>>               \* "*"
T_one == <<49>>                \* "1"
T_dir == <<100, 105, 114>>     \* "dir"
T_file_name == <<102, 105, 108, 101, 95, 110, 97, 109, 101>>  \* "file_name"
DirArg == <<47, 100>>          \* --dir "/d"
FileArg == <<102>>             \* --dbfilename "f"
PortArg == <<54, 51, 56, 48>>  \* --port "6380"

\* A client's request: an array of bulk strings
Request(args) == DataSerialize(Array([i \in 1..Len(args) |-> BulkString(args[i])]))

\* What the clients of the keyspace scenario send
KvKeys == {<<97>>}
KvRequests ==
    {Request(<<T_SET, k, <<118>>>>) : k \in KvKeys}
    \cup {Request(<<T_SET, k, <<119>>, T_PX, T_one>>) : k \in KvKeys}
    \cup {Request(<<T_GET, k>>) : k \in KvKeys}
    \cup {Request(<<T_KEYS, T_star>>)}

\* What the peers of the replication scenario send
ReplRequests ==
    {Request(<<T_SET, <<97>>, v>>) : v \in ValSet}
    \cup {Request(<<T_PSYNC, T_qmark, T_minus1>>), Request(<<T_PING>>)}

\* The maps a HashMap<String, _> can be: functions on a finite set of keys
Put(m, k, v) == [x \in DOMAIN m \cup {k} |-> IF x = k THEN v ELSE m[x]]
Remove(m, k) == [x \in DOMAIN m \ {k} |-> m[x]]
Lookup(m, k) == IF k \in DOMAIN m THEN <<m[k]>> ELSE <<>>
EmptyMap == [x \in {} |-> <<>>]

Min(a, b) == IF a < b THEN a ELSE b

----------------------------------------------------------------------------
(* The server: Redis (redis_server.rs) behind its connection handlers.     *)

VARIABLES
    role,        \* Redis.role: "Primary" or "Replica"
    started,     \* Redis::new has returned
    now,         \* SystemTime::now()
    db,          \* Redis.db, the value map
    exp,         \* Redis.exp, the expiry map
    config,      \* Redis.config
    dbLock,      \* holder of db's Mutex: None or Some(connection)
    expLock,     \* holder of exp's Mutex
    root,        \* the instance Redis::new returns: [master_stream, replica_stream]
    inst,        \* per connection: the clone its handler owns
    h,           \* per connection: the handler task and the locals of execute
    streamLock,  \* per connection: holder of the Arc<Mutex<TcpStream>>:
                 \*   None, Some(0) the handler, Some(i) fan-out task i
    inbox,       \* per connection: bytes the peer has sent, not yet read
    wire,        \* per connection: bytes written to the socket since its
                 \*   handler last began a command
    tasks,       \* the fan-out tasks tokio::spawn has started
    sent,        \* buffers sent by the peers so far
    partials,    \* partial try_write calls so far
    obs,         \* per connection: what its last get saw and returned
    lastSet,     \* per key: the last set committed for it, and whether a get
                 \*   has removed the key since
    registered,  \* connections on which a primary has executed PSYNC
    commits,     \* the Set commands committed while connections were
                 \*   registered, each with these connections
    fanout,      \* per connection: the bytes the fan-out tasks have written
    hs,          \* a replica running handshake_with_master against connection
                 \*   HsConn of the server, or against another peer
    call         \* one call of a function of the codecs on its own: the
                 \*   function, its argument (bytes or a frame) and its result

vars == <<role, started, now, db, exp, config, dbLock, expLock, root, inst, h,
          streamLock, inbox, wire, tasks, sent, partials, obs, lastSet,
          registered, commits, fanout, hs, call>>

\* rd, sock and log belong to handle_stream of main.rs: what its last wait or
\* read returned, the state of its socket ("open", "eof" once the peer has
\* closed, "reset" once the connection is broken), and the chunks its
\* try_write calls have put on the socket since the last read
Idle == [pc |-> "closed", req |-> <<>>, queue |-> <<>>, resp |-> <<>>, wbuf |-> <<>>,
         off |-> 0,
         replicate |-> FALSE, full_replicate |-> FALSE, key_count |-> 0,
         rd |-> "none", sock |-> "open", log |-> <<>>]

NoInst == [master_stream |-> <<>>, replica_stream |-> <<>>]

\* The replica before handshake_with_master: peer is what it connects to,
\* msgs the buffers it has passed to write, wbuf and off the locals of the
\* running write, rx the bytes of the peer not yet read, eof whether the
\* peer has closed, got what each try_read returned, master_stream whether
\* Redis.master_stream is set, seen the commands the server has executed on
\* connection HsConn
NoHandshake == [pc |-> "off", peer |-> "none", msgs |-> <<>>, wbuf |-> <<>>, off |-> 0,
                rx |-> <<>>, eof |-> FALSE, got |-> <<>>, master_stream |-> FALSE,
                seen |-> <<>>]

\* No call of a codec function on its own
NoCall == [fn |-> "none", req |-> <<>>, frame |-> <<>>, out |-> <<>>]

\* The server before Redis::new
InitServer ==
    /\ role \in {"Primary", "Replica"}
    /\ started = FALSE
    /\ now = 0
    /\ db = EmptyMap
    /\ exp = EmptyMap
    /\ config = EmptyMap
    /\ dbLock = <<>>
    /\ expLock = <<>>
    /\ root = NoInst
    /\ inst = [c \in Conns |-> NoInst]
    /\ h = [c \in Conns |-> Idle]
    /\ streamLock = [c \in Conns |-> <<>>]
    /\ inbox = [c \in Conns |-> <<>>]
    /\ wire = [c \in Conns |-> <<>>]
    /\ tasks = <<>>
    /\ sent = 0
    /\ partials = 0
    /\ obs = [c \in Conns |-> <<>>]
    /\ lastSet = [k \in KeySet |-> <<>>]
    /\ registered = {}
    /\ commits = <<>>
    /\ fanout = [c \in Conns |-> <<>>]
    /\ hs = NoHandshake

Init == InitServer /\ call = NoCall

\* What read_rdb can return: Err, or Ok((kivals, exp_map)) with the keys of
\* exp_map among those of kivals
LoadTimes == {1, 2}
RdbErr == [ok |-> FALSE, kivals |-> EmptyMap, exp_map |-> EmptyMap]
RdbResults(keys, vals) ==
    {RdbErr}
    \cup UNION {UNION {{[ok |-> TRUE, kivals |-> kv, exp_map |-> em] :
                            em \in [T -> LoadTimes]} : T \in SUBSET S,
                           kv \in [S -> vals]} : S \in SUBSET keys}

\* The loop of Redis::new over kivals: an entry with an expiry is kept when
\* exp_time > now, an entry without one always
LoadedDb(r, t) ==
    [k \in {x \in DOMAIN r.kivals : x \in DOMAIN r.exp_map => r.exp_map[x] > t}
        |-> r.kivals[k]]
LoadedExp(r, t) ==
    [k \in {x \in DOMAIN r.kivals : x \in DOMAIN r.exp_map /\ r.exp_map[x] > t}
        |-> r.exp_map[k]]

\* Redis::new, called with (givens) or without both of dir and file_name,
\* for the results rdbs of read_rdb and the outcomes streams of
\* handshake_with_master, which sets master_stream or returns early
Startup(givens, rdbs, streams) ==
    /\ ~started
    /\ started' = TRUE
    /\ \E given \in givens, r \in rdbs, ms \in streams :
         /\ given \/ ~r.ok
         /\ role = "Primary" => ms = <<>>
         /\ config' = IF given THEN Put(Put(EmptyMap, T_dir, DirArg), T_file_name, FileArg)
                      ELSE EmptyMap
         /\ db' = IF r.ok THEN LoadedDb(r, now) ELSE EmptyMap
         /\ exp' = IF r.ok THEN LoadedExp(r, now) ELSE EmptyMap
         /\ root' = [master_stream |-> ms, replica_stream |-> <<>>]
    /\ UNCHANGED <<call, fanout, hs, role, now, dbLock, expLock, inst, h, streamLock, inbox, wire,
                   tasks, sent, partials, obs, lastSet, registered, commits>>

\* SystemTime::now() advances; time is counted from the call of Redis::new
Tick ==
    /\ started
    /\ now < MaxTime
    /\ now' = now + 1
    /\ UNCHANGED <<call, fanout, hs, role, started, db, exp, config, dbLock, expLock, root, inst, h,
                   streamLock, inbox, wire, tasks, sent, partials, obs, lastSet,
                   registered, commits>>

\* Redis::clone: the maps are shared, master_stream is kept, replica_stream is None
Clone(r) == [master_stream |-> r.master_stream, replica_stream |-> <<>>]

\* A connection gets its handler task, which owns a clone of the instance.
\* Connection 0 is the master stream of a replica whose handshake completed.
Accept(c) ==
    /\ started
    /\ h[c].pc = "closed"
    /\ c = MasterConn => root.master_stream # <<>>
    /\ h' = [h EXCEPT ![c].pc = "idle"]
    /\ inst' = [inst EXCEPT ![c] = Clone(root)]
    /\ UNCHANGED <<call, fanout, hs, role, started, now, db, exp, config, dbLock, expLock, root,
                   streamLock, inbox, wire, tasks, sent, partials, obs, lastSet,
                   registered, commits>>

\* The peer of connection c sends one buffer of the menu.  A buffer sent
\* while the handler executes waits in the socket until the handler reads
\* again, so it is sent here when the handler is about to read.
PeerSend(c, menu) ==
    /\ h[c].pc = "idle"
    /\ inbox[c] = <<>>
    /\ sent < MaxSends
    /\ \E req \in menu : inbox' = [inbox EXCEPT ![c] = req]
    /\ sent' = sent + 1
    /\ UNCHANGED <<call, fanout, hs, role, started, now, db, exp, config, dbLock, expLock, root, inst,
                   h, streamLock, wire, tasks, partials, obs, lastSet, registered,
                   commits>>

\* The handler reads up to BufSize bytes and decodes them; a panic of the
\* decoder ends the task.
HandlerRead(c) ==
    /\ h[c].pc = "idle"
    /\ inbox[c] # <<>>
    /\ LET n == Min(Len(inbox[c]), BufSize)
           r == CommandDeserialize(SubSeq(inbox[c], 1, n), now)
       IN /\ inbox' = [inbox EXCEPT ![c] = SubSeq(@, n + 1, Len(@))]
          /\ h' = [h EXCEPT ![c] =
                     IF r.panic THEN [Idle EXCEPT !.pc = "dead", !.req = SubSeq(inbox[c], 1, n)]
                     ELSE IF r.cmds = <<>>
                          THEN [Idle EXCEPT !.pc = "idle", !.req = SubSeq(inbox[c], 1, n)]
                     ELSE [Idle EXCEPT !.pc = "execute", !.req = SubSeq(inbox[c], 1, n),
                                       !.queue = r.cmds]]
    /\ wire' = [wire EXCEPT ![c] = <<>>]
    /\ obs' = [obs EXCEPT ![c] = <<>>]
    /\ UNCHANGED <<call, fanout, hs, role, started, now, db, exp, config, dbLock, expLock, root, inst,
                   streamLock, tasks, sent, partials, lastSet, registered, commits>>

----------------------------------------------------------------------------
(* Redis::execute and what it calls.                                       *)

NullBulk == <<36, 45, 49>> \o CRLF                      \* "$-1\r\n"
OkLine == <<43, 79, 75>> \o CRLF                        \* "+OK\r\n"
PongBulk == <<36, 52>> \o CRLF \o T_PONG \o CRLF        \* "$4\r\nPONG\r\n"

\* "+FULLRESYNC {} {}\r\n"
FullResyncLine(replid, offset) ==
    <<43, 70, 85, 76, 76, 82, 69, 83, 89, 78, 67, 32>> \o replid \o <<32>>
        \o Decimal(offset) \o CRLF

\* "${}\r\n" of decode_bytes.len()
RdbHeader == <<36>> \o Decimal(Len(EmptyRdb)) \o CRLF

\* Redis.replid and Redis.repl_offset as Redis::new sets them
ReplId(r) == IF r = "Primary" THEN <<PrimaryReplId>> ELSE <<>>
ReplOffset == <<0>>

\* The reply to INFO
InfoResp(r, section) ==
    IF section = T_all \/ section = T_replication \/ section = T_REPLICATION
    THEN LET info0 == <<35, 32, 82, 101, 112, 108, 105, 99, 97, 116, 105, 111, 110,
                        32, 13, 10, 114, 111, 108, 101, 58>>
                      \o (IF r = "Primary" THEN T_master ELSE T_slave) \o CRLF
             info1 == IF ReplId(r) # <<>>
                      THEN info0 \o <<109, 97, 115, 116, 101, 114, 95, 114, 101, 112,
                                      108, 105, 100, 58>> \o ReplId(r)[1] \o CRLF
                      ELSE info0
             info2 == IF ReplOffset # <<>>
                      THEN info1 \o <<109, 97, 115, 116, 101, 114, 95, 114, 101, 112,
                                      108, 95, 111, 102, 102, 115, 101, 116, 58>>
                                 \o Decimal(ReplOffset[1]) \o CRLF
                      ELSE info1
         IN BulkFmt(info2)
    ELSE NullBulk

\* The reply to CONFIG GET
ConfigResp(cfg, key) ==
    IF key \in DOMAIN cfg
    THEN <<42, 50>> \o CRLF \o BulkFmt(key) \o BulkFmt(cfg[key])
    ELSE NullBulk

\* The arms of execute's match that take no lock on db or exp
SimpleResp(r, cfg, cmd) ==
    IF cmd.op = "Echo" THEN BulkFmt(cmd.a)
    ELSE IF cmd.op = "Ping" THEN PongBulk
    ELSE IF cmd.op = "ConfigGet" THEN ConfigResp(cfg, cmd.a)
    ELSE IF cmd.op = "Info" THEN InfoResp(r, cmd.a)
    ELSE IF cmd.op = "ReplConf" THEN OkLine
    ELSE IF r = "Primary" THEN FullResyncLine(ReplId(r)[1], ReplOffset[1])
    ELSE NullBulk

Cur(c) == Head(h[c].queue)

\* execute for Echo, Ping, ConfigGet, Info, ReplConf and Psync, up to the await
\* of stream.lock().  Psync on a primary stores the stream in the handler's
\* own instance.
ExecSimple(c) ==
    /\ h[c].pc = "execute"
    /\ Cur(c).op \notin {"Get", "Set", "Keys"}
    /\ LET psync == Cur(c).op = "Psync" /\ role = "Primary"
       IN /\ h' = [h EXCEPT ![c].pc = "lock_stream",
                            ![c].resp = SimpleResp(role, config, Cur(c)),
                            ![c].full_replicate = psync]
          /\ inst' = IF psync THEN [inst EXCEPT ![c].replica_stream = <<c>>] ELSE inst
          /\ registered' = IF psync THEN registered \cup {c} ELSE registered
          /\ hs' = IF hs.peer = "server" /\ c = HsConn
                    THEN [hs EXCEPT !.seen = Append(@, Cur(c))]
                    ELSE hs
    /\ UNCHANGED <<call, fanout, role, started, now, db, exp, config, dbLock, expLock, root,
                   streamLock, inbox, wire, tasks, sent, partials, obs, lastSet,
                   commits>>

\* Redis::get: let mut exp = self.exp.lock().await
GetLockExp(c) ==
    /\ h[c].pc = "execute"
    /\ Cur(c).op = "Get"
    /\ expLock = <<>>
    /\ expLock' = <<c>>
    /\ h' = [h EXCEPT ![c].pc = "get_db"]
    /\ UNCHANGED <<call, fanout, hs, role, started, now, db, config, exp, dbLock, root, inst,
                   streamLock, inbox, wire, tasks, sent, partials, obs, lastSet,
                   registered, commits>>

\* A comparison that also expires a key at the instant of its expiry
GetExpired_AtOrBefore(e, k, t) == k \in DOMAIN e /\ e[k] <= t
\* A get that leaves the expiry of a key without value in place
GetExp_Keep(d1, e, k) == e

\* A get that removes the expiry of its key in any case
GetExp_Drop(d1, e, k) == Remove(e, k)

\* A get that leaves the value of an expired key in place
GetDb_Keep(d, e, k, t) == d

\* Redis::get, `exp < SystemTime::now()`
GetExpired(e, k, t) == k \in DOMAIN e /\ e[k] < t
\* Redis::get, the value map after `db.remove(key)` of an expired key
GetDb(d, e, k, t) == IF GetExpired(e, k, t) THEN Remove(d, k) ELSE d
\* Redis::get, the expiry map after `exp.remove(key)` of a key with no value
GetExp(d1, e, k) == IF k \notin DOMAIN d1 THEN Remove(e, k) ELSE e

\* A lock of db that does not wait for its holder
GetLockDb_NoWait(l) == TRUE
\* Redis::get, `self.db.lock().await` returns when the Mutex has no holder
GetLockDb(l) == l = <<>>

\* Redis::get from self.db.lock().await to its return, where both guards
\* drop, and the reply execute formats from the result
GetBody(c) ==
    /\ h[c].pc = "get_db"
    /\ GetLockDb(dbLock)
    /\ LET k == Cur(c).a
           db1 == GetDb(db, exp, k, now)
           res == Lookup(db1, k)
       IN /\ db' = db1
          /\ exp' = GetExp(db1, exp, k)
          /\ obs' = [obs EXCEPT ![c] = <<[key |-> k, res |-> res, exp |-> Lookup(exp, k),
                                          at |-> now, lastSet |-> lastSet[k]]>>]
          /\ h' = [h EXCEPT ![c].pc = "lock_stream",
                            ![c].resp = IF res # <<>> THEN BulkFmt(res[1]) ELSE NullBulk]
          /\ lastSet' = IF GetExpired(exp, k, now) /\ lastSet[k] # <<>>
                         THEN [lastSet EXCEPT ![k][1].dropped = TRUE]
                         ELSE lastSet
    /\ expLock' = <<>>
    /\ UNCHANGED <<call, fanout, hs, role, started, now, config, dbLock, root, inst, streamLock, inbox,
                   wire, tasks, sent, partials, registered, commits>>

\* Redis::set, `db.insert(key.clone(), value)`
SetDb(d, k, v) == Put(d, k, v)
\* A set that stores its expiry in place of the whole map
SetExp_Only(e, k, x) == IF x # <<>> THEN Put(EmptyMap, k, x[1]) ELSE e
\* Redis::set, the expiry map after the `if let Some(exp) = exp` block
SetExp(e, k, x) == IF x # <<>> THEN Put(e, k, x[1]) ELSE e

\* Redis::set from self.db.lock().await to the insert into db; without an
\* expiry set returns here and the guard drops
SetLockDb(c) ==
    /\ h[c].pc = "execute"
    /\ Cur(c).op = "Set"
    /\ dbLock = <<>>
    /\ db' = SetDb(db, Cur(c).a, Cur(c).b)
    /\ lastSet' = [lastSet EXCEPT ![Cur(c).a] =
                       <<[v |-> Cur(c).b, px |-> Cur(c).exp # <<>>, dropped |-> FALSE]>>]
    /\ commits' = IF registered # {}
                   THEN Append(commits, [cmd |-> Cur(c), regs |-> registered])
                   ELSE commits
    /\ IF Cur(c).exp = <<>>
       THEN /\ dbLock' = <<>>
            /\ h' = [h EXCEPT ![c].pc = "lock_stream", ![c].resp = OkLine,
                              ![c].replicate = TRUE]
       ELSE /\ dbLock' = <<c>>
            /\ h' = [h EXCEPT ![c].pc = "set_exp"]
    /\ UNCHANGED <<call, fanout, hs, role, started, now, exp, config, expLock, root, inst, streamLock,
                   inbox, wire, tasks, sent, partials, obs, registered>>

\* Redis::set, self.exp.lock().await.insert(key, exp), then both guards drop
SetLockExp(c) ==
    /\ h[c].pc = "set_exp"
    /\ expLock = <<>>
    /\ exp' = SetExp(exp, Cur(c).a, Cur(c).exp)
    /\ dbLock' = <<>>
    /\ h' = [h EXCEPT ![c].pc = "lock_stream", ![c].resp = OkLine,
                      ![c].replicate = TRUE]
    /\ UNCHANGED <<call, fanout, hs, role, started, now, db, config, expLock, root, inst, streamLock,
                   inbox, wire, tasks, sent, partials, obs, lastSet, registered,
                   commits>>

\* execute for Keys: let key_count = self.db.lock().await.keys().count()
KeysCount(c) ==
    /\ h[c].pc = "execute"
    /\ Cur(c).op = "Keys"
    /\ dbLock = <<>>
    /\ h' = [h EXCEPT ![c].pc = "keys_fold", ![c].key_count = Cardinality(DOMAIN db)]
    /\ UNCHANGED <<call, fanout, hs, role, started, now, db, exp, config, dbLock, expLock, root, inst,
                   streamLock, inbox, wire, tasks, sent, partials, obs, lastSet,
                   registered, commits>>

\* The orders in which a HashMap can iterate over its keys
Orders(S) == {o \in [1..Cardinality(S) -> S] : \A k \in S : \E i \in DOMAIN o : o[i] = k}

RECURSIVE KeysFmt(_)
\* the fold of execute for Keys over the keys in order o
KeysFmt(o) == IF o = <<>> THEN <<>> ELSE BulkFmt(Head(o)) \o KeysFmt(Tail(o))

\* execute for Keys: the second self.db.lock().await, the fold and the reply
KeysFold(c) ==
    /\ h[c].pc = "keys_fold"
    /\ dbLock = <<>>
    /\ \E o \in Orders(DOMAIN db) :
         h' = [h EXCEPT ![c].pc = "lock_stream",
                        ![c].resp = <<42>> \o Decimal(h[c].key_count) \o CRLF \o KeysFmt(o)]
    /\ UNCHANGED <<call, fanout, hs, role, started, now, db, exp, config, dbLock, expLock, root, inst,
                   streamLock, inbox, wire, tasks, sent, partials, obs, lastSet,
                   registered, commits>>

\* execute: let stream = stream.lock().await, then write(&stream, resp) begins
LockStream(c) ==
    /\ h[c].pc = "lock_stream"
    /\ streamLock[c] = <<>>
    /\ streamLock' = [streamLock EXCEPT ![c] = <<0>>]
    /\ h' = [h EXCEPT ![c].pc = "write_resp", ![c].wbuf = h[c].resp, ![c].off = 0]
    /\ UNCHANGED <<call, fanout, hs, role, started, now, db, exp, config, dbLock, expLock, root, inst,
                   inbox, wire, tasks, sent, partials, obs, lastSet, registered,
                   commits>>

\* The numbers of bytes one try_write(bytes) may accept: all of them, or
\* (for `cap` calls of a run) only the first 1..MaxCut
WriteSizes(bytes, used, cap) ==
    IF bytes = <<>> THEN {0}
    ELSE {Len(bytes)}
         \cup (IF used < cap THEN 1..Min(MaxCut, Len(bytes) - 1) ELSE {})

\* write: what one try_write(&bytes) that accepts n bytes puts on the socket
\* when `offset` bytes were accepted before
WriteChunk(bytes, offset, n) == SubSeq(bytes, 1, n)
\* write: whether the loop breaks after that call
WriteDone(bytes, offset, n) == offset + n >= Len(bytes)

\* Redis::replicate: with a master_stream, a task is spawned for the command
Replicate(i, cmd) ==
    IF i.master_stream # <<>>
    THEN Append(tasks, [pc |-> "lock", stream |-> i.master_stream[1], cmd |-> cmd,
                        wbuf |-> <<>>, off |-> 0])
    ELSE tasks

\* One turn of the loop of write in execute or send_emtpy_rdb, and what
\* follows the call of write once the loop breaks: after the reply,
\* replicate and (for a full resync, on a primary) the header of the
\* snapshot; after the header, the snapshot.
TryWrite(c, cap) ==
    /\ h[c].pc \in {"write_resp", "write_hdr", "write_rdb"}
    /\ \E n \in WriteSizes(h[c].wbuf, partials, cap) :
         /\ wire' = [wire EXCEPT ![c] = @ \o WriteChunk(h[c].wbuf, h[c].off, n)]
         /\ hs' = IF hs.peer = "server" /\ c = HsConn
                   THEN [hs EXCEPT !.rx = @ \o WriteChunk(h[c].wbuf, h[c].off, n)]
                   ELSE hs
         /\ partials' = IF n < Len(h[c].wbuf) THEN partials + 1 ELSE partials
         /\ IF ~WriteDone(h[c].wbuf, h[c].off, n)
            THEN /\ h' = [h EXCEPT ![c].off = @ + n]
                 /\ tasks' = tasks
            ELSE IF h[c].pc = "write_resp"
            THEN /\ tasks' = IF h[c].replicate THEN Replicate(inst[c], Cur(c)) ELSE tasks
                 /\ h' = IF h[c].full_replicate /\ role = "Primary"
                         THEN [h EXCEPT ![c].pc = "write_hdr", ![c].wbuf = RdbHeader,
                                        ![c].off = 0]
                         ELSE [h EXCEPT ![c].pc = "ret"]
            ELSE IF h[c].pc = "write_hdr"
            THEN /\ h' = [h EXCEPT ![c].pc = "write_rdb", ![c].wbuf = EmptyRdb,
                                   ![c].off = 0]
                 /\ tasks' = tasks
            ELSE /\ h' = [h EXCEPT ![c].pc = "ret"]
                 /\ tasks' = tasks
    /\ UNCHANGED <<call, fanout, role, started, now, db, exp, config, dbLock, expLock, root, inst,
                   streamLock, inbox, sent, obs, lastSet, registered, commits>>

\* execute returns: the guard of the stream drops, and the handler goes on
\* with the next command of the buffer or with the next read
Return(c) ==
    /\ h[c].pc = "ret"
    /\ streamLock' = [streamLock EXCEPT ![c] = <<>>]
    /\ IF Tail(h[c].queue) = <<>>
       THEN /\ h' = [h EXCEPT ![c] = [Idle EXCEPT !.pc = "idle"]]
            /\ UNCHANGED <<wire, obs>>
       ELSE /\ h' = [h EXCEPT ![c] = [Idle EXCEPT !.pc = "execute",
                                                  !.queue = Tail(h[c].queue)]]
            /\ wire' = [wire EXCEPT ![c] = <<>>]
            /\ obs' = [obs EXCEPT ![c] = <<>>]
    /\ UNCHANGED <<call, fanout, hs, role, started, now, db, exp, config, dbLock, expLock, root, inst,
                   inbox, tasks, sent, partials, lastSet, registered, commits>>

\* The task replicate spawns: clone_stream.lock().await
TaskLock(i) ==
    /\ i \in DOMAIN tasks
    /\ tasks[i].pc = "lock"
    /\ streamLock[tasks[i].stream] = <<>>
    /\ streamLock' = [streamLock EXCEPT ![tasks[i].stream] = <<i>>]
    /\ tasks' = [tasks EXCEPT ![i].pc = "readable"]
    /\ UNCHANGED <<call, fanout, hs, role, started, now, db, exp, config, dbLock, expLock, root, inst, h,
                   inbox, wire, sent, partials, obs, lastSet, registered, commits>>

\* The task replicate spawns, after stream.readable().await returned Ok:
\* cmd.serialize() panics for a command it does not encode, and the guard
\* drops; otherwise write runs, one try_write a step
TaskRun(i, cap) ==
    /\ i \in DOMAIN tasks
    /\ tasks[i].pc \in {"readable", "write"}
    /\ IF tasks[i].pc = "readable"
       THEN LET ser == CommandSerialize(tasks[i].cmd)
            IN /\ tasks' = IF ser = <<>> THEN [tasks EXCEPT ![i].pc = "panicked"]
                           ELSE [tasks EXCEPT ![i].pc = "write", ![i].wbuf = ser[1]]
               /\ streamLock' = IF ser = <<>>
                                THEN [streamLock EXCEPT ![tasks[i].stream] = <<>>]
                                ELSE streamLock
               /\ UNCHANGED <<wire, partials, fanout>>
       ELSE \E n \in WriteSizes(tasks[i].wbuf, partials, cap) :
               LET done == WriteDone(tasks[i].wbuf, tasks[i].off, n)
               IN /\ wire' = [wire EXCEPT ![tasks[i].stream] =
                                 @ \o WriteChunk(tasks[i].wbuf, tasks[i].off, n)]
                  /\ fanout' = [fanout EXCEPT ![tasks[i].stream] =
                                   @ \o WriteChunk(tasks[i].wbuf, tasks[i].off, n)]
                  /\ partials' = IF n < Len(tasks[i].wbuf) THEN partials + 1 ELSE partials
                  /\ tasks' = IF done THEN [tasks EXCEPT ![i].pc = "done"]
                              ELSE [tasks EXCEPT ![i].off = @ + n]
                  /\ streamLock' = IF done
                                   THEN [streamLock EXCEPT ![tasks[i].stream] = <<>>]
                                   ELSE streamLock
    /\ UNCHANGED <<call, hs, role, started, now, db, exp, config, dbLock, expLock, root, inst, h,
                   inbox, sent, obs, lastSet, registered, commits>>

----------------------------------------------------------------------------
(* Redis::handshake_with_master, run by a replica whose master is the      *)
(* server above (over its connection HsConn) or some other peer.           *)

\* The four commands of the handshake, in the order of the code
HsCommands ==
    <<Ping, ReplConf(T_listening_port, PortArg), ReplConf(T_capa, T_psync2),
      Psync(T_qmark, T_minus1)>>

\* msg of step i: the command's serialize()
HsMessage(i) == CommandSerialize(HsCommands[i])[1]

\* What a peer other than the server may answer
T_ERR == <<45, 69, 82, 82>> \o CRLF                    \* "-ERR\r\n"
PeerReplies == {PongBulk, OkLine, T_ERR}

\* The peer has closed the connection: it said so, or the handler task of the
\* server has ended and dropped the stream
HsClosed == hs.eof \/ (hs.peer = "server" /\ h[HsConn].pc = "dead")

HsUnchanged ==
    UNCHANGED <<call, role, started, now, db, exp, config, dbLock, expLock, root, inst, h,
                streamLock, wire, tasks, sent, obs, lastSet, registered, commits,
                fanout>>

\* The early returns before the first write, and TcpStream::connect: Err
\* returns, Ok leads to write(&stream, ping)
HsConnect ==
    /\ hs.pc = "off"
    /\ started
    /\ \E ok \in BOOLEAN, peer \in {"server", "other"} :
         /\ (ok /\ peer = "server") => h[HsConn].pc = "idle"
         /\ hs' = IF ok
                   THEN [hs EXCEPT !.pc = "write", !.peer = peer,
                                   !.msgs = <<HsMessage(1)>>, !.wbuf = HsMessage(1)]
                   ELSE [hs EXCEPT !.pc = "aborted"]
    /\ UNCHANGED <<inbox, partials>>
    /\ HsUnchanged

\* One turn of the loop of write(&stream, msg); when the loop breaks after
\* PSYNC, master_stream is set and the handshake returns.  Bytes written
\* to the server arrive in the socket of its connection HsConn unless its
\* handler has ended.
HsWrite(cap) ==
    /\ hs.pc = "write"
    /\ \E n \in WriteSizes(hs.wbuf, partials, cap) :
         LET chunk == WriteChunk(hs.wbuf, hs.off, n)
             done == WriteDone(hs.wbuf, hs.off, n)
         IN /\ inbox' = IF hs.peer = "server" /\ h[HsConn].pc # "dead"
                         THEN [inbox EXCEPT ![HsConn] = @ \o chunk]
                         ELSE inbox
            /\ partials' = IF n < Len(hs.wbuf) THEN partials + 1 ELSE partials
            /\ hs' = IF ~done THEN [hs EXCEPT !.off = @ + n]
                      ELSE IF Len(hs.msgs) < Len(HsCommands)
                      THEN [hs EXCEPT !.pc = "readable", !.wbuf = <<>>, !.off = 0]
                      ELSE [hs EXCEPT !.pc = "done", !.wbuf = <<>>, !.off = 0,
                                      !.master_stream = TRUE]
    /\ HsUnchanged

\* stream.readable().await returns Ok: bytes have arrived or the peer has closed
HsReadable ==
    /\ hs.pc = "readable"
    /\ hs.rx # <<>> \/ HsClosed
    /\ hs' = [hs EXCEPT !.pc = "read"]
    /\ UNCHANGED <<inbox, partials>>
    /\ HsUnchanged

\* stream.try_read(&mut buf) returns Ok(n), n = 0 when the peer has closed:
\* the loop breaks, whatever was read, and the next message is written
HsRead ==
    /\ hs.pc = "read"
    /\ LET n == Min(Len(hs.rx), BufSize)
           next == HsMessage(Len(hs.msgs) + 1)
       IN hs' = [hs EXCEPT !.pc = "write",
                           !.got = Append(@, SubSeq(hs.rx, 1, n)),
                           !.rx = SubSeq(@, n + 1, Len(@)),
                           !.msgs = Append(@, next),
                           !.wbuf = next,
                           !.off = 0]
    /\ UNCHANGED <<inbox, partials>>
    /\ HsUnchanged

\* stream.readable().await or try_read returns an error other than
\* WouldBlock: the handshake returns
HsFail ==
    /\ hs.pc \in {"readable", "read"}
    /\ hs' = [hs EXCEPT !.pc = "aborted"]
    /\ UNCHANGED <<inbox, partials>>
    /\ HsUnchanged

\* A peer other than the server answers the message the replica waits on
PeerReply ==
    /\ hs.peer = "other"
    /\ hs.pc = "readable"
    /\ hs.rx = <<>>
    /\ ~hs.eof
    /\ \E r \in PeerReplies : hs' = [hs EXCEPT !.rx = r]
    /\ UNCHANGED <<inbox, partials>>
    /\ HsUnchanged

\* A peer other than the server closes the connection instead of answering
PeerClose ==
    /\ hs.peer = "other"
    /\ hs.pc = "readable"
    /\ hs.rx = <<>>
    /\ ~hs.eof
    /\ hs' = [hs EXCEPT !.eof = TRUE]
    /\ UNCHANGED <<inbox, partials>>
    /\ HsUnchanged

----------------------------------------------------------------------------
(* The specifications.                                                     *)

\* The keyspace scenario: a server without a master stream, whose clients
\* read and write the key of KvKeys while the clock runs; every try_write
\* accepts the whole buffer
Next ==
    \/ Startup({TRUE}, RdbResults(KvKeys, {<<119>>}), {<<>>})
    \/ Tick
    \/ \E c \in ClientConns :
         \/ Accept(c)
         \/ PeerSend(c, KvRequests)
         \/ HandlerRead(c)
         \/ GetLockExp(c)
         \/ GetBody(c)
         \/ SetLockDb(c)
         \/ SetLockExp(c)
         \/ KeysCount(c)
         \/ KeysFold(c)
         \/ LockStream(c)
         \/ TryWrite(c, 0)
         \/ Return(c)

Spec == Init /\ [][Next]_vars

\* The replication scenario: a primary, or a replica with or without its
\* master stream, whose peers send SET, PSYNC and PING; try_write may accept
\* part of a buffer
NextRepl ==
    \/ Startup({FALSE}, {RdbErr}, {<<>>, <<MasterConn>>})
    \/ \E c \in Conns :
         \/ Accept(c)
         \/ PeerSend(c, ReplRequests)
         \/ HandlerRead(c)
         \/ ExecSimple(c)
         \/ SetLockDb(c)
         \/ LockStream(c)
         \/ TryWrite(c, MaxPartial)
         \/ Return(c)
    \/ \E i \in 1..MaxSends : TaskLock(i) \/ TaskRun(i, MaxPartial)

SpecRepl == Init /\ [][NextRepl]_vars

\* The handshake scenario: a replica runs handshake_with_master against the
\* server, whose handler of connection HsConn dispatches what it receives
\* with execute, or against a peer that answers as it likes or closes
NextHandshake ==
    \/ Startup({FALSE}, {RdbErr}, {<<>>})
    \/ Accept(HsConn)
    \/ HsConnect
    \/ HsWrite(MaxPartial)
    \/ HsReadable
    \/ HsRead
    \/ HsFail
    \/ PeerReply
    \/ PeerClose
    \/ HandlerRead(HsConn)
    \/ ExecSimple(HsConn)
    \/ LockStream(HsConn)
    \/ TryWrite(HsConn, MaxPartial)
    \/ Return(HsConn)

SpecHandshake == Init /\ [][NextHandshake]_vars

\* Requests whose bulk header gives a length that is not the length of the
\* payload: "*1\r\n$3\r\nPING\r\n", "*2\r\n$4\r\nECHO\r\n$5\r\nv\r\n" and
\* "*2\r\n$4\r\nECHO\r\n$0\r\nv\r\n"
MismatchBuffers ==
    {<<42, 49>> \o CRLF \o <<36, 51>> \o CRLF \o T_PING \o CRLF,
     <<42, 50>> \o CRLF \o BulkFmt(T_ECHO) \o <<36, 53>> \o CRLF \o <<118>> \o CRLF,
     <<42, 50>> \o CRLF \o BulkFmt(T_ECHO) \o <<36, 48>> \o CRLF \o <<118>> \o CRLF}

\* What the clients of the decoding scenario send
ParseRequests ==
    {Request(<<T_PING>>), Request(<<T_ECHO, <<118>>>>)} \cup MismatchBuffers

\* Connection handlers that decode well-formed and malformed buffers
NextParse ==
    \/ Startup({FALSE}, {RdbErr}, {<<>>})
    \/ \E c \in ClientConns :
         \/ Accept(c)
         \/ PeerSend(c, ParseRequests)
         \/ HandlerRead(c)
         \/ ExecSimple(c)
         \/ LockStream(c)
         \/ TryWrite(c, 0)
         \/ Return(c)

SpecParse == Init /\ [][NextParse]_vars

----------------------------------------------------------------------------
(* The RESP codec on its own: one call of a function on one argument.      *)

\* Buffers of up to MaxPipe requests, one after the other
MaxPipe == 2
PipeRequests ==
    {Request(<<T_PING>>), Request(<<T_ECHO, <<118>>>>), Request(<<T_GET, <<97>>>>),
     Request(<<T_SET, <<97>>, <<118>>>>), Request(<<T_SET, <<97>>, <<119>>, T_PX, T_one>>)}
PipeSeqs == UNION {[1..n -> PipeRequests] : n \in 1..MaxPipe}
RECURSIVE Concat(_)
Concat(seqs) == IF seqs = <<>> THEN <<>> ELSE Head(seqs) \o Concat(Tail(seqs))
Pipelines == {Concat(p) : p \in PipeSeqs}

\* A frame of the wire that is no RedisDataType: the null bulk string
NullFrame == [t |-> "Null", s |-> <<>>, a |-> <<>>]

RECURSIVE FrameBytes(_)
RECURSIVE FrameBytesAll(_)
\* The bytes of a frame: RedisDataType::serialize, "$-1\r\n" for the null
\* bulk string, also as an element of an array
FrameBytes(f) ==
    IF f.t = "Null" THEN NullBulk
    ELSE IF f.t = "Array" THEN <<42>> \o Decimal(Len(f.a)) \o CRLF \o FrameBytesAll(f.a)
    ELSE DataSerialize(f)

FrameBytesAll(items) ==
    IF items = <<>> THEN <<>> ELSE FrameBytes(Head(items)) \o FrameBytesAll(Tail(items))

\* Arrays by their elements, and the frames that follow an array in a buffer
ElementLists ==
    {<<>>, <<BulkString(<<97>>)>>, <<BulkString(<<97>>), BulkString(<<98>>)>>,
     <<NullFrame, BulkString(<<97>>)>>, <<BulkString(<<97>>), NullFrame>>,
     <<Array(<<BulkString(<<97>>)>>), BulkString(<<98>>)>>,
     <<Array(<<>>), BulkString(<<97>>)>>}
Followers ==
    {<<>>, <<SimpleString(<<79, 75>>)>>, <<BulkString(<<97>>)>>,
     <<Array(<<BulkString(T_PING)>>)>>,
     <<BulkString(<<97>>), Array(<<BulkString(T_PING)>>)>>}
ArrayBuffer(items, rest) == FrameBytes(Array(items)) \o FrameBytesAll(rest)
ArrayBuffers == {ArrayBuffer(items, rest) : items \in ElementLists, rest \in Followers}

\* Spellings of a token: all upper case, all lower case, the first letter in
\* upper case (Ping), every second letter in upper case (pInG)
UpperByte(b) == IF b \in 97..122 THEN b - 32 ELSE b
LowerByte(b) == IF b \in 65..90 THEN b + 32 ELSE b
Spellings == {"upper", "lower", "capital", "alternate"}
Spell(f, tok) ==
    [i \in 1..Len(tok) |->
        IF f = "upper" \/ (f = "capital" /\ i = 1) \/ (f = "alternate" /\ i % 2 = 0)
        THEN UpperByte(tok[i])
        ELSE LowerByte(tok[i])]
SpellAll(f, toks) == [j \in 1..Len(toks) |-> Spell(f, toks[j])]

\* The requests of the vocabulary: the tokens before the spelled ones, the
\* spelled ones (the verb, or PX), the tokens after them
VerbForms ==
    {[pre |-> <<>>, kw |-> <<T_PING>>, post |-> <<>>],
     [pre |-> <<>>, kw |-> <<T_ECHO>>, post |-> <<<<118>>>>],
     [pre |-> <<>>, kw |-> <<T_GET>>, post |-> <<<<97>>>>],
     [pre |-> <<>>, kw |-> <<T_SET>>, post |-> <<<<97>>, <<118>>>>],
     [pre |-> <<>>, kw |-> <<T_CONFIG, T_GET>>, post |-> <<T_dir>>],
     [pre |-> <<>>, kw |-> <<T_KEYS>>, post |-> <<T_star>>],
     [pre |-> <<>>, kw |-> <<T_INFO>>, post |-> <<>>],
     [pre |-> <<>>, kw |-> <<T_REPLCONF>>, post |-> <<T_capa, T_psync2>>],
     [pre |-> <<>>, kw |-> <<T_PSYNC>>, post |-> <<T_qmark, T_minus1>>],
     [pre |-> <<T_SET, <<97>>, <<118>>>>, kw |-> <<T_PX>>, post |-> <<T_one>>]}
SpelledRequest(v, f) == Request(v.pre \o SpellAll(f, v.kw) \o v.post)
CaseRequests == {SpelledRequest(v, f) : v \in VerbForms, f \in Spellings}

\* Request arrays with fewer elements than the arity of their verb
ShortArgs ==
    {<<T_ECHO>>, <<T_GET>>, <<T_SET>>, <<T_SET, <<97>>>>, <<T_SET, <<97>>, <<118>>, T_PX>>,
     <<T_CONFIG>>, <<T_CONFIG, T_GET>>, <<T_KEYS>>, <<T_REPLCONF>>,
     <<T_REPLCONF, T_capa>>, <<T_PSYNC>>, <<T_PSYNC, T_qmark>>}
\* Request arrays with all the elements of their verb
FullArgs == {v.pre \o v.kw \o v.post : v \in VerbForms}
ShortRequests == {Request(toks) : toks \in ShortArgs}

\* Request arrays whose first element, FOO, is no verb
T_FOO == <<70, 79, 79>>
UnknownArgs ==
    {<<T_FOO>>, <<T_FOO, <<97>>>>, <<T_FOO, T_PING>>, <<T_FOO, <<97>>, T_PING>>,
     <<T_FOO, T_GET, <<97>>>>, <<T_FOO, T_SET, <<97>>, <<118>>>>, <<T_FOO, T_KEYS>>}
UnknownRequests == {Request(toks) : toks \in UnknownArgs}

\* Request arrays of a verb with all its elements, where an element after
\* the verb spells a verb: the section of INFO, or an element more than the
\* verb takes
TrailingArgs ==
    {<<T_INFO, T_ping>>, <<T_INFO, T_replication>>, <<T_INFO, T_replication, T_PING>>,
     <<T_PING, T_PING>>, <<T_ECHO, <<97>>, T_PING>>, <<T_GET, <<97>>, T_KEYS, T_star>>,
     <<T_CONFIG, T_GET, T_dir, T_ping>>, <<T_ECHO, T_PING>>, <<T_GET, T_GET>>}
TrailingRequests == {Request(toks) : toks \in TrailingArgs}

\* The buffers the decoders are called on
CodecBuffers ==
    Pipelines \cup ArrayBuffers \cup CaseRequests \cup ShortRequests \cup UnknownRequests
        \cup TrailingRequests

\* The frames the server replies with: +OK, +PONG, bulk strings, the null
\* bulk string, arrays of bulk strings
BulkStrings == {BulkString(x) : x \in {<<>>, <<97>>, <<118>>, T_dir}}
ReplyFrames ==
    {SimpleString(<<79, 75>>), SimpleString(T_PONG), NullFrame}
    \cup BulkStrings
    \cup {Array(<<>>)}
    \cup {Array(<<x>>) : x \in BulkStrings}
    \cup {Array(<<x, y>>) : x \in BulkStrings, y \in BulkStrings}

InitCodec ==
    /\ InitServer
    /\ call \in {[NoCall EXCEPT !.req = b] : b \in CodecBuffers}
                \cup {[NoCall EXCEPT !.frame = <<f>>] : f \in ReplyFrames}

\* Command::deserialize(req)
CallCommandDeserialize ==
    /\ call.fn = "none"
    /\ call.req # <<>>
    /\ call' = [call EXCEPT !.fn = "Command::deserialize",
                            !.out = CommandDeserialize(call.req, now)]
    /\ UNCHANGED <<role, started, now, db, exp, config, dbLock, expLock, root, inst, h,
                   streamLock, inbox, wire, tasks, sent, partials, obs, lastSet,
                   registered, commits, fanout, hs>>

\* RedisDataType::parse_req(None, &mut data.split("\r\n"))
CallDataParseReq ==
    /\ call.fn = "none"
    /\ call.req # <<>>
    /\ call' = [call EXCEPT !.fn = "RedisDataType::parse_req",
                            !.out = DataParseReq(<<>>, SplitCRLF(call.req), 1, <<>>, 0)]
    /\ UNCHANGED <<role, started, now, db, exp, config, dbLock, expLock, root, inst, h,
                   streamLock, inbox, wire, tasks, sent, partials, obs, lastSet,
                   registered, commits, fanout, hs>>

\* RedisDataType::deserialize of the bytes of a frame
CallRoundTrip ==
    /\ call.fn = "none"
    /\ call.frame # <<>>
    /\ call' = [call EXCEPT !.fn = "RedisDataType::deserialize",
                            !.req = FrameBytes(call.frame[1]),
                            !.out = DataDeserialize(FrameBytes(call.frame[1]))]
    /\ UNCHANGED <<role, started, now, db, exp, config, dbLock, expLock, root, inst, h,
                   streamLock, inbox, wire, tasks, sent, partials, obs, lastSet,
                   registered, commits, fanout, hs>>

NextCodec ==
    \/ CallCommandDeserialize
    \/ CallDataParseReq
    \/ CallRoundTrip

SpecCodec == InitCodec /\ [][NextCodec]_vars

----------------------------------------------------------------------------
(* The snapshot reader's length and string encodings (redis_db.rs), each   *)
(* called on its own on a sequence of bytes.                               *)

RECURSIVE BigEndian(_)
\* val = (val << 8) | next_byte, over the bytes in order
BigEndian(bytes) ==
    IF bytes = <<>> THEN 0
    ELSE 256 * BigEndian(SubSeq(bytes, 1, Len(bytes) - 1)) + bytes[Len(bytes)]

\* u64::from_le_bytes: the first byte is the least significant
RECURSIVE LittleEndian(_)
LittleEndian(bytes) ==
    IF bytes = <<>> THEN 0 ELSE bytes[1] + 256 * LittleEndian(Tail(bytes))

LenErr == [ok |-> FALSE, kind |-> "Err", val |-> 0, used |-> 0]
\* n calls of bites.next().context(..)?, folded as the code folds them, after
\* `used` bytes of the iterator: Err when the iterator ends first
ReadBytes(bites, used, n, kind) ==
    IF used + n > Len(bites) THEN LenErr
    ELSE [ok |-> TRUE, kind |-> kind, val |-> BigEndian(SubSeq(bites, used + 1, used + n)),
          used |-> used + n]

\* RDBLenEncodings::from_u8 on an iterator over bites: the variant, its
\* number and how many bytes the iterator has yielded
RDBLenEncodingsFromU8(bites) ==
    IF bites = <<>> THEN LenErr
    ELSE
      LET first_byte == bites[1]
          first_2_bits == (first_byte \div 64) * 64
          low_6_bits == first_byte % 64
      IN IF first_2_bits = 0
         THEN [ok |-> TRUE, kind |-> "SixBit", val |-> first_byte, used |-> 1]
         ELSE IF first_2_bits = 64
         THEN LET next == ReadBytes(bites, 1, 1, "FourteenBit")
              IN IF next.ok THEN [next EXCEPT !.val = ((low_6_bits * 256) + next.val) % 65536]
                 ELSE LenErr
         ELSE IF first_2_bits = 128 THEN ReadBytes(bites, 1, 4, "SixtyFourBit")
         ELSE IF low_6_bits = 0 THEN ReadBytes(bites, 1, 1, "SpecialEncoding")
         ELSE IF low_6_bits < 3 THEN ReadBytes(bites, 1, low_6_bits, "SpecialEncoding")
         ELSE LenErr

\* String::from_utf8 succeeds: ASCII bytes are valid text; a byte from 128
\* on is taken as invalid, and none is drawn after the first byte
FromUtf8Ok(bytes) == \A i \in 1..Len(bytes) : bytes[i] < 128

\* StringEncoding::from_u8: Int32(val) or LenPrefixed(value), and how many
\* bytes the iterator has yielded
StringEncodingFromU8(bites) ==
    LET len_encoding == RDBLenEncodingsFromU8(bites)
        num == len_encoding.val
        e == [ok |-> FALSE, kind |-> "Err", val |-> 0, value |-> <<>>, used |-> 0]
    IN IF ~len_encoding.ok THEN e
       ELSE IF len_encoding.kind = "SpecialEncoding"
       THEN [ok |-> TRUE, kind |-> "Int32", val |-> num, value |-> <<>>,
             used |-> len_encoding.used]
       ELSE IF len_encoding.used + num > Len(bites) THEN e
       ELSE LET val == SubSeq(bites, len_encoding.used + 1, len_encoding.used + num)
            IN IF FromUtf8Ok(val)
               THEN [ok |-> TRUE, kind |-> "LenPrefixed", val |-> num, value |-> val,
                     used |-> len_encoding.used + num]
               ELSE e

\* The byte sequences the reader is called on: a first byte of each kind
\* and up to MaxRdbTail bytes after it
MaxRdbTail == 5
FirstBytes == {0, 2, 64, 128, 192, 193, 194, 195, 255}
TailBytes == {0, 1, 127}
RdbInputs ==
    {<<b>> \o t : b \in FirstBytes, t \in UNION {[1..n -> TailBytes] : n \in 0..MaxRdbTail}}

InitRdb == InitServer /\ call \in {[NoCall EXCEPT !.req = b] : b \in RdbInputs}

CallRDBLenEncodings ==
    /\ call.fn = "none"
    /\ call' = [call EXCEPT !.fn = "RDBLenEncodings::from_u8",
                            !.out = RDBLenEncodingsFromU8(call.req)]
    /\ UNCHANGED <<role, started, now, db, exp, config, dbLock, expLock, root, inst, h,
                   streamLock, inbox, wire, tasks, sent, partials, obs, lastSet,
                   registered, commits, fanout, hs>>

CallStringEncoding ==
    /\ call.fn = "none"
    /\ call' = [call EXCEPT !.fn = "StringEncoding::from_u8",
                            !.out = StringEncodingFromU8(call.req)]
    /\ UNCHANGED <<role, started, now, db, exp, config, dbLock, expLock, root, inst, h,
                   streamLock, inbox, wire, tasks, sent, partials, obs, lastSet,
                   registered, commits, fanout, hs>>

NextRdb ==
    \/ CallRDBLenEncodings
    \/ CallStringEncoding

SpecRdb == InitRdb /\ [][NextRdb]_vars

----------------------------------------------------------------------------
(* RedisDB::read_rdb (redis_db.rs) on the bytes of a dump file.  An        *)
(* iterator over the bytes is the sequence and the number i of bytes it    *)
(* has yielded.  A result has st = "ok", "err" (an Err return) or "panic". *)
(* Times are milliseconds since UNIX_EPOCH.                                *)

\* The bytes the iterator has not yielded
Rest(bytes, i) == SubSeq(bytes, i + 1, Len(bytes))

\* RDBOpCodes::from_u8 is Ok
IsOpCode(b) == b \in 250..255

\* RedisDB::get_expiry(next_byte, byte_iter) with the iterator at i:
\* exp is the Option<SystemTime>.  take(n).collect() gives the bytes that are
\* left, at most n, and try_into().unwrap() to [u8; 8] panics unless they
\* are 8.
GetExpiry(bytes, i) ==
    LET next_byte == bytes[i + 1]
        n == IF next_byte = 253 THEN 4 ELSE 8
        arr == SubSeq(bytes, i + 2, Min(i + 1 + n, Len(bytes)))
    IN IF next_byte \notin {252, 253} THEN [st |-> "ok", exp |-> <<>>, i |-> i]
       ELSE IF Len(arr) # 8 THEN [st |-> "panic", exp |-> <<>>, i |-> i]
       ELSE [st |-> "ok",
             exp |-> <<IF next_byte = 253 THEN 1000 * LittleEndian(arr)
                       ELSE LittleEndian(arr)>>,
             i |-> i + 1 + Len(arr)]

\* StringEncoding::to_string
StringEncodingToString(e) == IF e.kind = "Int32" THEN Decimal(e.val) ELSE e.value

\* RedisDB::load_key_val(bites) with the iterator at i
LoadKeyVal(bytes, i) ==
    LET e == [st |-> "err", k |-> <<>>, v |-> <<>>, i |-> i]
        key == StringEncodingFromU8(Rest(bytes, i + 1))
        val == StringEncodingFromU8(Rest(bytes, i + 1 + key.used))
    IN IF i >= Len(bytes) THEN e
       ELSE IF bytes[i + 1] # 0 THEN e
       ELSE IF ~key.ok THEN e
       ELSE IF ~val.ok THEN e
       ELSE [st |-> "ok", k |-> StringEncodingToString(key),
             v |-> StringEncodingToString(val), i |-> i + 1 + key.used + val.used]

RECURSIVE ReadEntries(_, _, _, _)
\* read_rdb, the result of the loop over the entries with the iterator at j
EntriesResult(st, j, kv, ex) == [st |-> st, i |-> j, kivals |-> kv, exp_map |-> ex]

\* read_rdb, one entry after load_key_val returned kv: the inserts into
\* kivals and exp_map, the break at a peeked SelectDB, Aux, ResizeDB or Eof,
\* and the next turn of the loop
InsertEntry(bytes, i, kivals, exp_map, expiry_arg, kv) ==
    LET kivals2 == Put(kivals, kv.k, kv.v)
        exp_map2 == IF expiry_arg.exp # <<>> THEN Put(exp_map, kv.k, expiry_arg.exp[1])
                    ELSE exp_map
    IN IF kv.st # "ok" THEN EntriesResult(kv.st, i, kivals, exp_map)
       ELSE IF kv.i < Len(bytes) /\ bytes[kv.i + 1] \in {254, 250, 251, 255}
            THEN EntriesResult("ok", kv.i, kivals2, exp_map2)
            ELSE ReadEntries(bytes, kv.i, kivals2, exp_map2)

\* read_rdb, one entry after get_expiry returned expiry_arg
LoadEntry(bytes, i, kivals, exp_map, expiry_arg) ==
    IF expiry_arg.st # "ok" THEN EntriesResult(expiry_arg.st, i, kivals, exp_map)
    ELSE InsertEntry(bytes, i, kivals, exp_map, expiry_arg, LoadKeyVal(bytes, expiry_arg.i))

\* read_rdb, the loop over the entries of a database, with the iterator at i
ReadEntries(bytes, i, kivals, exp_map) ==
    IF i >= Len(bytes) THEN EntriesResult("err", i, kivals, exp_map)
    ELSE LoadEntry(bytes, i, kivals, exp_map, GetExpiry(bytes, i))

RECURSIVE ReadAux(_, _)
\* read_rdb, the Aux opcode after its two strings, with the iterator at j
AuxNext(bytes, i, ok, j) ==
    IF ~ok \/ j >= Len(bytes) THEN [st |-> "err", i |-> i]
    ELSE IF bytes[j + 1] = 254 THEN [st |-> "ok", i |-> j]
    ELSE IF bytes[j + 1] = 250 THEN ReadAux(bytes, j + 1)
    ELSE ReadAux(bytes, j)

\* read_rdb, the Aux opcode after its first string
AuxVal(bytes, i, key, val) == AuxNext(bytes, i, key.ok /\ val.ok, i + key.used + val.used)
AuxKey(bytes, i, key) ==
    AuxVal(bytes, i, key, StringEncodingFromU8(Rest(bytes, i + key.used)))

\* read_rdb, the loop of the Aux opcode, with the iterator at i
ReadAux(bytes, i) == AuxKey(bytes, i, StringEncodingFromU8(Rest(bytes, i)))

RECURSIVE ReadOpCodes(_, _, _, _, _)
\* read_rdb, what it returns: Ok of the two maps, Err, or a panic
RdbResult(st, kv, ex) == [st |-> st, kivals |-> kv, exp_map |-> ex]
RdbFailed == RdbResult("err", EmptyMap, EmptyMap)

\* read_rdb, the end of a turn of the while loop: next_byte = byte_iter.next()?
NextOpCode(bytes, st, i, kivals, exp_map) ==
    IF st # "ok" THEN RdbResult(st, EmptyMap, EmptyMap)
    ELSE IF i >= Len(bytes) THEN RdbFailed
    ELSE ReadOpCodes(bytes, i + 1, bytes[i + 1], kivals, exp_map)

\* read_rdb, SelectDB: the entries after the length encoding exp_size
AfterExpSize(bytes, i, kivals, exp_map, exp_size, es) ==
    IF ~exp_size.ok THEN RdbFailed
    ELSE NextOpCode(bytes, es.st, es.i, es.kivals, es.exp_map)

\* read_rdb, SelectDB: after the length encoding db_size, with the iterator at i
AfterDbSize(bytes, i, kivals, exp_map, db_size, exp_size) ==
    IF ~db_size.ok THEN RdbFailed
    ELSE AfterExpSize(bytes, i, kivals, exp_map, exp_size,
                      ReadEntries(bytes, i + exp_size.used, kivals, exp_map))

\* read_rdb, SelectDB: the opcode ResizeDB has been read, db_size is the
\* first length encoding after it
AfterResizeDB(bytes, i, kivals, exp_map, db_size) ==
    AfterDbSize(bytes, i + db_size.used, kivals, exp_map, db_size,
                RDBLenEncodingsFromU8(Rest(bytes, i + db_size.used)))

\* read_rdb, SelectDB: after the length encoding db_number, with the
\* iterator at i: the next opcode must be ResizeDB
AfterDbNumber(bytes, i, kivals, exp_map, db_number) ==
    IF ~db_number.ok THEN RdbFailed
    ELSE IF i >= Len(bytes) THEN RdbFailed
    ELSE IF bytes[i + 1] # 251 THEN RdbFailed
    ELSE AfterResizeDB(bytes, i + 1, kivals, exp_map,
                       RDBLenEncodingsFromU8(Rest(bytes, i + 1)))

\* read_rdb, Aux: after the loop of the Aux opcode
AfterAux(bytes, aux, kivals, exp_map) == NextOpCode(bytes, aux.st, aux.i, kivals, exp_map)

\* read_rdb, the while loop over the opcodes: next_byte has been taken from
\* the iterator, which is at i
ReadOpCodes(bytes, i, next_byte, kivals, exp_map) ==
    IF ~IsOpCode(next_byte) THEN RdbFailed
    ELSE IF next_byte = 255 THEN RdbResult("ok", kivals, exp_map)
    ELSE IF next_byte = 254
    THEN AfterDbNumber(bytes, i + RDBLenEncodingsFromU8(Rest(bytes, i)).used, kivals,
                       exp_map, RDBLenEncodingsFromU8(Rest(bytes, i)))
    ELSE IF next_byte = 250 THEN AfterAux(bytes, ReadAux(bytes, i), kivals, exp_map)
    ELSE RdbFailed

\* "REDIS"
T_REDIS == <<82, 69, 68, 73, 83>>

\* RedisDB::read_rdb on the bytes get_rbd_bytes returns: Vec::drain panics
\* when the range ends after the vector
ReadRdb(bytes) ==
    LET r(st) == [st |-> st, kivals |-> EmptyMap, exp_map |-> EmptyMap]
    IN IF Len(bytes) < 5 THEN r("panic")
       ELSE IF SubSeq(bytes, 1, 5) # T_REDIS THEN r("err")
       ELSE IF Len(bytes) < 9 THEN r("panic")
       ELSE IF Len(bytes) = 9 THEN r("err")
       ELSE ReadOpCodes(bytes, 10, bytes[10], EmptyMap, EmptyMap)

\* The bytes of a dump file with one database: an entry is a key, a value
\* and an expiry that is none, <<"s", n>> (opcode 0xFD, 4 bytes) or
\* <<"ms", n>> (opcode 0xFC, 8 bytes)
T_0003 == <<48, 48, 48, 51>>
Zeros(n) == [j \in 1..n |-> 0]
ExpiryBytes(x) ==
    IF x = <<>> THEN <<>>
    ELSE IF x[1] = "s" THEN <<253, x[2]>> \o Zeros(3)
    ELSE <<252, x[2]>> \o Zeros(7)
StringBytes(str) == <<Len(str)>> \o str
EntryBytes(e) == ExpiryBytes(e.exp) \o <<0>> \o StringBytes(e.k) \o StringBytes(e.v)
RECURSIVE EntriesBytes(_)
EntriesBytes(es) == IF es = <<>> THEN <<>> ELSE EntryBytes(Head(es)) \o EntriesBytes(Tail(es))
RdbFile(es) ==
    T_REDIS \o T_0003 \o <<254, 0, 251, Len(es), Len(es)>> \o EntriesBytes(es) \o <<255>>

\* Dump files of one entry, and of two entries with different keys
Expiries == {<<>>, <<"s", 5>>, <<"ms", 7>>}
EntryLists ==
    {<<[k |-> <<97>>, v |-> <<118>>, exp |-> x]>> : x \in Expiries}
    \cup {<<[k |-> <<97>>, v |-> <<118>>, exp |-> x], [k |-> <<98>>, v |-> <<119>>, exp |-> y]>> :
             x \in Expiries, y \in Expiries}
RdbFiles == {RdbFile(es) : es \in EntryLists}

\* Dump files with a structural violation: the files cut short at every
\* length up to MaxFileCut, a bad magic string, a value type that is not 0, and a length
\* byte 0xC3 where the key begins
MaxFileCut == 20
Truncated == {SubSeq(f, 1, n) : f \in RdbFiles, n \in 0..MaxFileCut} \ RdbFiles
BadMagic == {<<82, 69, 68, 73, 88>> \o Rest(f, 5) : f \in RdbFiles}
BadEntries ==
    {T_REDIS \o T_0003 \o <<254, 0, 251, 1, 1>> \o e \o <<255>> :
        e \in {<<1, 1, 97, 1, 118>>, <<0, 195, 97, 1, 118>>, <<0, 1, 97, 195, 118>>}}
BrokenFiles == Truncated \cup BadMagic \cup BadEntries

\* Dump files without a database: the payload send_emtpy_rdb sends, and a
\* file of one Aux section (a, v) and the Eof opcode
AuxFiles == {EmptyRdb, T_REDIS \o T_0003 \o <<250, 1, 97, 1, 118, 255>>}

InitReadRdb ==
    InitServer /\ call \in {[NoCall EXCEPT !.req = b] :
                                b \in RdbFiles \cup BrokenFiles \cup AuxFiles}

\* RedisDB::read_rdb
CallReadRdb ==
    /\ call.fn = "none"
    /\ call' = [call EXCEPT !.fn = "RedisDB::read_rdb", !.out = ReadRdb(call.req)]
    /\ UNCHANGED <<role, started, now, db, exp, config, dbLock, expLock, root, inst, h,
                   streamLock, inbox, wire, tasks, sent, partials, obs, lastSet,
                   registered, commits, fanout, hs>>

NextReadRdb ==
    \/ CallReadRdb

SpecReadRdb == InitReadRdb /\ [][NextReadRdb]_vars

----------------------------------------------------------------------------
(* main.rs: the listener and handle_stream, with its own parse_req and     *)
(* process_req.  A handler is h[c] with pc "readable" (in                  *)
(* stream.readable().await), "try_read", "write" (in the loop over resps), *)
(* "done" (after break) or "dead" (after a panic).                         *)

\* String::from_utf8_lossy(&buf): a byte that is no ASCII character becomes
\* U+FFFD (the buffers of this model are ASCII, so no sequence of several
\* bytes is valid); the string is given by its characters
FromUtf8Lossy(buf) == [j \in DOMAIN buf |-> IF buf[j] < 128 THEN buf[j] ELSE 65533]

\* parse_req(None, &mut tokens) of main.rs: the same loop as
\* RedisDataType::parse_req
MainParseReq(toks) == DataParseReq(<<>>, toks, 1, <<>>, 0)

\* get_next_string of main.rs: the next item of the iterator, when it is a string
MainGetNextString(items, i) ==
    IF i <= Len(items) /\ items[i].t # "Array" THEN <<items[i].s>> ELSE <<>>

PongLine == <<43>> \o T_PONG \o CRLF                    \* "+PONG\r\n"

\* process_req: resps.append(&mut arr_resp), in reverse
AppendResps_Front(resps, arr_resp) == arr_resp \o resps
\* process_req: resps.append(&mut arr_resp)
AppendResps(resps, arr_resp) == resps \o arr_resp

RECURSIVE ProcessReq(_, _, _)
\* process_req(data_stream), from the state of its while loop: the iterator
\* is at item i
ProcessReq(items, i, resps) ==
    IF i > Len(items) THEN resps
    ELSE LET item == items[i]
         IN IF item.t = "Array"
            THEN ProcessReq(items, i + 1, AppendResps(resps, ProcessReq(item.a, 1, <<>>)))
            ELSE IF item.s = T_PING \/ item.s = T_ping
            THEN ProcessReq(items, i + 1, Append(resps, PongLine))
            ELSE IF item.s = T_ECHO \/ item.s = T_echo
            THEN LET msg == MainGetNextString(items, i + 1)
                 IN ProcessReq(items, i + 2,
                               Append(resps, <<43>> \o (IF msg = <<>> THEN <<>> ELSE msg[1])
                                             \o CRLF))
            ELSE ProcessReq(items, i + 1, resps)

\* The body of handle_stream's loop between try_read and the loop over
\* resps, for the n bytes `data` that try_read put into the zeroed buf: the
\* whole buf is decoded, and its zeros after the data lengthen the last
\* token of req.split("\r\n")
MainDecode(data) ==
    LET toks == SplitCRLF(FromUtf8Lossy(data))
        r == MainParseReq([toks EXCEPT ![Len(toks)] = @ \o Zeros(BufSize - Len(data))])
    IN [panic |-> r.panic, items |-> r.items,
        resps |-> IF r.panic THEN <<>> ELSE ProcessReq(r.items, 1, <<>>)]

T_hey == <<104, 101, 121>>                              \* "hey"
\* The buffers a peer of main.rs sends: one request or two in a row
MainRequests == {Request(<<T_PING>>), Request(<<T_ECHO, T_hey>>)}
MainBuffers ==
    MainRequests \cup {a \o b : a \in MainRequests, b \in MainRequests} \cup {T_FOO \o CRLF}

\* main: tokio::spawn of handle_stream for an accepted stream
MainAccept(c) ==
    /\ h[c].pc = "closed"
    /\ h' = [h EXCEPT ![c].pc = "readable"]
    /\ UNCHANGED <<call, fanout, hs, role, started, now, db, exp, config, dbLock, expLock, root,
                   inst, streamLock, inbox, wire, tasks, sent, partials, obs, lastSet,
                   registered, commits>>

\* The peer sends a buffer
MainPeerSend(c) ==
    /\ h[c].pc \in {"readable", "try_read"}
    /\ h[c].sock = "open"
    /\ inbox[c] = <<>>
    /\ sent < MaxSends
    /\ \E req \in MainBuffers : inbox' = [inbox EXCEPT ![c] = req]
    /\ sent' = sent + 1
    /\ UNCHANGED <<call, fanout, hs, role, started, now, db, exp, config, dbLock, expLock, root,
                   inst, h, streamLock, wire, tasks, partials, obs, lastSet, registered,
                   commits>>

\* The peer closes its side, or the connection breaks (what was not read is lost)
MainPeerEnd(c) ==
    /\ h[c].pc \in {"readable", "try_read", "write"}
    /\ h[c].sock = "open"
    /\ \E s \in {"eof", "reset"} :
         /\ h' = [h EXCEPT ![c].sock = s]
         /\ inbox' = IF s = "reset" THEN [inbox EXCEPT ![c] = <<>>] ELSE inbox
    /\ UNCHANGED <<call, fanout, hs, role, started, now, db, exp, config, dbLock, expLock, root,
                   inst, streamLock, wire, tasks, sent, partials, obs, lastSet, registered,
                   commits>>

\* handle_stream: stream.readable().await returns; on Err the loop continues.
\* The wait may return Ok with nothing to read.
MainReadable(c) ==
    /\ h[c].pc = "readable"
    /\ \/ h' = [h EXCEPT ![c].pc = "try_read"]
       \/ /\ h[c].sock = "reset"
          /\ h' = [h EXCEPT ![c].rd = "readable_err"]
    /\ UNCHANGED <<call, fanout, hs, role, started, now, db, exp, config, dbLock, expLock, root,
                   inst, streamLock, inbox, wire, tasks, sent, partials, obs, lastSet,
                   registered, commits>>

\* handle_stream: match stream.try_read(&mut buf).  Ok(0) breaks; Err of any
\* kind continues; Ok(n) decodes the buffer and computes resps.
MainTryRead(c) ==
    /\ h[c].pc = "try_read"
    /\ IF h[c].sock = "reset"
       THEN /\ h' = [h EXCEPT ![c].pc = "readable", ![c].rd = "hard_err"]
            /\ inbox' = inbox
       ELSE IF inbox[c] = <<>>
       THEN /\ h' = IF h[c].sock = "eof"
                    THEN [h EXCEPT ![c].pc = "done", ![c].rd = "eof"]
                    ELSE [h EXCEPT ![c].pc = "readable", ![c].rd = "would_block"]
            /\ inbox' = inbox
       ELSE LET n == Min(Len(inbox[c]), BufSize)
                data == SubSeq(inbox[c], 1, n)
                d == MainDecode(data)
            IN /\ inbox' = [inbox EXCEPT ![c] = SubSeq(@, n + 1, Len(@))]
               /\ h' = [h EXCEPT ![c].rd = "data", ![c].req = data, ![c].log = <<>>,
                                 ![c].queue = d.resps,
                                 ![c].pc = IF d.panic THEN "dead"
                                           ELSE IF d.resps = <<>> THEN "readable"
                                           ELSE "write"]
    /\ UNCHANGED <<call, fanout, hs, role, started, now, db, exp, config, dbLock, expLock, root,
                   inst, streamLock, wire, tasks, sent, partials, obs, lastSet, registered,
                   commits>>

\* handle_stream: one turn of `for resp in resps`: writable().await.unwrap()
\* and try_write(resp.as_bytes()).unwrap().  An Err of either panics; the
\* bytes try_write did not accept are not sent again.
MainWrite(c) ==
    /\ h[c].pc = "write"
    /\ \/ /\ h[c].sock # "reset"
          /\ \E n \in WriteSizes(Head(h[c].queue), partials, MaxPartial) :
               /\ h' = [h EXCEPT ![c].log = Append(@, SubSeq(Head(h[c].queue), 1, n)),
                                 ![c].queue = Tail(@),
                                 ![c].pc = IF Tail(h[c].queue) = <<>> THEN "readable"
                                           ELSE "write"]
               /\ partials' = IF n < Len(Head(h[c].queue)) THEN partials + 1 ELSE partials
       \/ /\ h' = [h EXCEPT ![c].pc = "dead"]
          /\ partials' = partials
    /\ UNCHANGED <<call, fanout, hs, role, started, now, db, exp, config, dbLock, expLock, root,
                   inst, streamLock, inbox, wire, tasks, sent, obs, lastSet, registered,
                   commits>>

\* The connections main.rs accepts in this scenario (the handlers of main.rs
\* share nothing)
MainConns == {1}

\* The server of main.rs and the peers of its connections
NextMain ==
    \E c \in MainConns :
        \/ MainAccept(c)
        \/ MainPeerSend(c)
        \/ MainPeerEnd(c)
        \/ MainReadable(c)
        \/ MainTryRead(c)
        \/ MainWrite(c)

SpecMain == Init /\ [][NextMain]_vars

----------------------------------------------------------------------------
(* write on a socket that may break: the handler of a connection runs      *)
(* execute for PING and ECHO while the connection may be reset.            *)

\* The connection of c breaks: from now on its try_write calls fail
SockBreak(c) ==
    /\ h[c].pc \notin {"closed", "dead"}
    /\ h[c].sock = "open"
    /\ h' = [h EXCEPT ![c].sock = "reset"]
    /\ UNCHANGED <<call, fanout, hs, role, started, now, db, exp, config, dbLock, expLock, root,
                   inst, streamLock, inbox, wire, tasks, sent, partials, obs, lastSet,
                   registered, commits>>

\* write: one turn of the loop in which stream.try_write(&bytes) returns
\* Err: `if let Ok(n)` does not match, nothing changes and the loop goes on
TryWriteErr(c) ==
    /\ h[c].pc \in {"write_resp", "write_hdr", "write_rdb"}
    /\ h[c].sock = "reset"
    /\ h' = [h EXCEPT ![c].rd = "write_err"]
    /\ UNCHANGED <<call, fanout, hs, role, started, now, db, exp, config, dbLock, expLock, root,
                   inst, streamLock, inbox, wire, tasks, sent, partials, obs, lastSet,
                   registered, commits>>

\* write: stream.writable().await returns Err and unwrap() panics; the task
\* ends and the guard of the stream drops
WritablePanic(c) ==
    /\ h[c].pc \in {"write_resp", "write_hdr", "write_rdb"}
    /\ h[c].sock = "reset"
    /\ h' = [h EXCEPT ![c].pc = "dead", ![c].rd = "writable_err"]
    /\ streamLock' = [streamLock EXCEPT ![c] = <<>>]
    /\ UNCHANGED <<call, fanout, hs, role, started, now, db, exp, config, dbLock, expLock, root,
                   inst, inbox, wire, tasks, sent, partials, obs, lastSet, registered,
                   commits>>

\* write: one turn of the loop on a connection that is intact
TryWriteOpen(c) == h[c].sock = "open" /\ TryWrite(c, MaxPartial)

WriteRequests == {Request(<<T_PING>>), Request(<<T_ECHO, <<118>>>>)}

\* The scenario of write: try_write accepts all or part of the buffer while
\* the connection is intact, and fails once it is broken
NextWrite ==
    \/ Startup({FALSE}, {RdbErr}, {<<>>})
    \/ \E c \in ClientConns :
         \/ Accept(c)
         \/ PeerSend(c, WriteRequests)
         \/ HandlerRead(c)
         \/ ExecSimple(c)
         \/ LockStream(c)
         \/ TryWriteOpen(c)
         \/ SockBreak(c)
         \/ TryWriteErr(c)
         \/ WritablePanic(c)
         \/ Return(c)

SpecWrite == Init /\ [][NextWrite]_vars

----------------------------------------------------------------------------
(* The frame scenario: one connection sends every command, on two keys,    *)
(* to a server started from a snapshot in which "b" has an expiry.         *)

FrameConns == {1}
FrameRdb == [ok |-> TRUE, kivals |-> [k \in KeySet |-> <<119>>],
             exp_map |-> [k \in {<<98>>} |-> 1]]
FrameRequests ==
    {Request(<<T_SET, <<97>>, <<118>>>>), Request(<<T_SET, <<98>>, <<118>>>>),
     Request(<<T_SET, <<97>>, <<119>>, T_PX, T_one>>),
     Request(<<T_GET, <<97>>>>), Request(<<T_GET, <<98>>>>),
     Request(<<T_PING>>), Request(<<T_ECHO, <<118>>>>),
     Request(<<T_CONFIG, T_GET, T_dir>>), Request(<<T_KEYS, T_star>>),
     Request(<<T_INFO, T_replication>>),
     Request(<<T_REPLCONF, T_listening_port, PortArg>>),
     Request(<<T_PSYNC, T_qmark, T_minus1>>)}

NextFrame ==
    \/ Startup({TRUE}, {RdbErr, FrameRdb}, {<<>>})
    \/ Tick
    \/ \E c \in FrameConns :
         \/ Accept(c)
         \/ PeerSend(c, FrameRequests)
         \/ HandlerRead(c)
         \/ ExecSimple(c)
         \/ GetLockExp(c)
         \/ GetBody(c)
         \/ SetLockDb(c)
         \/ SetLockExp(c)
         \/ KeysCount(c)
         \/ KeysFold(c)
         \/ LockStream(c)
         \/ TryWrite(c, 0)
         \/ Return(c)

SpecFrame == Init /\ [][NextFrame]_vars

----------------------------------------------------------------------------
(* Properties of the keyspace.                                             *)

\* C9: in every state reached by any interleaving of startup loading, get
\* and set, every key of the expiry map is a key of the value map.
C9_ExpiryKeysHaveValues == DOMAIN exp \subseteq DOMAIN db

\* A get has removed an expired key and a set with expiry has stored the key
\* again with a new expiry.
C9_Witness ==
    \E c \in ClientConns, d \in ClientConns :
        /\ obs[c] # <<>>
        /\ obs[c][1].exp # <<>>
        /\ obs[c][1].res = <<>>
        /\ h[d].pc = "lock_stream"
        /\ Cur(d).op = "Set"
        /\ Cur(d).exp # <<>>
        /\ Cur(d).a \in DOMAIN exp

\* C10 as stated: when the last set committed for k is set(k, v, none), a
\* get(k) returns v, whatever was applied before.
C10_GetReturnsLastSet ==
    \A c \in ClientConns :
        (obs[c] # <<>> /\ obs[c][1].lastSet # <<>> /\ ~obs[c][1].lastSet[1].px)
            => obs[c][1].res = <<obs[c][1].lastSet[1].v>>

\* C10, amended: when the last set committed for k is set(k, v, none), a
\* get(k) returns v as long as no expiry stored for k earlier (by loading or
\* by a set with expiry) has passed.  The set leaves that expiry in place;
\* the first get(k) after it has passed removes k, and that get and every
\* later one return none.
C10_GetReturnsLastSetUnlessExpired ==
    \A c \in ClientConns :
        (obs[c] # <<>> /\ obs[c][1].lastSet # <<>> /\ ~obs[c][1].lastSet[1].px)
            => obs[c][1].res =
                 IF \/ obs[c][1].lastSet[1].dropped
                    \/ obs[c][1].exp # <<>> /\ obs[c][1].exp[1] < obs[c][1].at
                 THEN <<>>
                 ELSE <<obs[c][1].lastSet[1].v>>

\* A get returns the value of a set without expiry that replaced another
\* value, while an earlier expiry of the key is stored and has not passed.
C10_Witness ==
    \E c \in ClientConns :
        /\ obs[c] # <<>>
        /\ obs[c][1].lastSet = <<[v |-> <<118>>, px |-> FALSE, dropped |-> FALSE]>>
        /\ obs[c][1].exp # <<>>
        /\ obs[c][1].exp[1] >= obs[c][1].at
        /\ obs[c][1].res = <<<<118>>>>

\* The step in which the get of connection c runs from the lock of db to
\* its return
GetReturns(c) == h[c].pc = "get_db" /\ h'[c].pc = "lock_stream"

\* The last set committed for k stored an expiry, and this expiry has passed
SetExpiryPassed(k) ==
    /\ lastSet[k] # <<>>
    /\ lastSet[k][1].px
    /\ k \in DOMAIN exp
    /\ exp[k] < now

\* C11: after set(k, v, e) with e an instant in the past, get(k) returns
\* none (the reply is the null bulk string), and in the state in which this
\* get has returned k is in neither the value map nor the expiry map.
C11_ExpiredGetReturnsNone ==
    [][\A c \in ClientConns :
          (GetReturns(c) /\ SetExpiryPassed(Cur(c).a))
              => /\ obs'[c][1].res = <<>>
                 /\ h'[c].resp = NullBulk
                 /\ Cur(c).a \notin DOMAIN db'
                 /\ Cur(c).a \notin DOMAIN exp']_vars

\* A get has returned none for a key whose last set stored an expiry that
\* had passed, and the key is in neither map.
C11_Witness ==
    \E c \in ClientConns :
        /\ h[c].pc = "lock_stream"
        /\ obs[c] # <<>>
        /\ obs[c][1].lastSet # <<>>
        /\ obs[c][1].lastSet[1].px
        /\ ~obs[c][1].lastSet[1].dropped
        /\ obs[c][1].exp # <<>>
        /\ obs[c][1].exp[1] < obs[c][1].at
        /\ obs[c][1].res = <<>>
        /\ obs[c][1].key \notin DOMAIN db
        /\ obs[c][1].key \notin DOMAIN exp

\* A set of k on connection d has inserted the value and waits for the lock
\* of exp to insert its expiry
SetInFlight(d, k) == h[d].pc = "set_exp" /\ Cur(d).a = k

\* The last set committed for k wrote, or is about to write, an expiry that
\* has not passed, and no get has removed k since
SetWroteLive(k) ==
    /\ lastSet[k] # <<>>
    /\ lastSet[k][1].px
    /\ ~lastSet[k][1].dropped
    /\ IF \E d \in ClientConns : SetInFlight(d, k)
       THEN \E d \in ClientConns : SetInFlight(d, k) /\ Cur(d).exp[1] >= now
       ELSE k \in DOMAIN exp /\ exp[k] >= now

\* C12: a get(k) concurrent with sets of k decides in one step: the get
\* that removes the value of k as expired returns none, the get that
\* returns a value has removed nothing, and no get removes or misses the
\* value a set wrote together with an expiry that has not passed.
C12_GetDecidesAtomically ==
    [][\A c \in ClientConns :
          GetReturns(c) =>
              LET k == Cur(c).a
                  removed == k \in DOMAIN db /\ k \notin DOMAIN db'
              IN /\ removed => (obs'[c][1].res = <<>> /\ h'[c].resp = NullBulk)
                 /\ obs'[c][1].res # <<>> => (k \in DOMAIN db /\ db' = db
                                              /\ obs'[c][1].res = <<db[k]>>)
                 /\ SetWroteLive(k) => (db' = db /\ k \in DOMAIN db
                                        /\ obs'[c][1].res = <<lastSet[k][1].v>>)]_vars

\* A get of k has returned the value of a set with an expiry that has not
\* passed, while another connection is executing a set of k.
C12_Witness ==
    \E c \in ClientConns, d \in ClientConns :
        /\ c # d
        /\ h[c].pc = "lock_stream"
        /\ obs[c] # <<>>
        /\ obs[c][1].lastSet # <<>>
        /\ obs[c][1].lastSet[1].px
        /\ obs[c][1].exp # <<>>
        /\ obs[c][1].exp[1] >= obs[c][1].at
        /\ obs[c][1].res = <<obs[c][1].lastSet[1].v>>
        /\ h[d].pc \in {"execute", "set_exp"}
        /\ Cur(d).op = "Set"
        /\ Cur(d).a = obs[c][1].key

----------------------------------------------------------------------------
(* Properties of the handshake.                                            *)

\* The replies try_read has returned that hold at least one byte
HsRepliesReceived == Cardinality({i \in DOMAIN hs.got : hs.got[i] # <<>>})

\* Whether p is a prefix of s
IsPrefix(p, s) == Len(p) <= Len(s) /\ SubSeq(s, 1, Len(p)) = p

\* C5: the messages the replica passes to write are, in this order, PING,
\* REPLCONF listening-port <port>, REPLCONF capa psync2 and PSYNC ? -1, and
\* each message after the first is sent only after a reply to the previous
\* one has been received.
C5_MessagesInOrderAfterReplies ==
    /\ IsPrefix(hs.msgs, [i \in 1..Len(HsCommands) |-> HsMessage(i)])
    /\ Len(hs.msgs) >= 1 => Len(hs.msgs) <= HsRepliesReceived + 1

\* The replies the handshake is to accept to its message i: +PONG or the
\* bulk string PONG to PING, +OK to REPLCONF
HsExpected(i) ==
    IF i = 1 THEN {PongBulk, <<43>> \o T_PONG \o CRLF} ELSE {OkLine}

\* C6: the handshake passes step i only on the expected reply to message i
\* (PONG, +OK, +OK) and sets master_stream only on +FULLRESYNC; after an
\* unexpected reply, a zero-byte read or another error no further message
\* is sent and master_stream stays unset.
C6_AdvancesOnlyOnExpectedReply ==
    /\ \A i \in 1..(Len(HsCommands) - 1) :
          Len(hs.msgs) > i => (Len(hs.got) >= i /\ hs.got[i] \in HsExpected(i))
    /\ hs.master_stream =>
          /\ Len(hs.got) >= Len(HsCommands)
          /\ IsPrefix(<<43, 70, 85, 76, 76, 82, 69, 83, 89, 78, 67>>,
                      hs.got[Len(HsCommands)])

\* The handler of a connection has nothing left to do
HandlerAtRest(c) == h[c].pc = "dead" \/ (h[c].pc = "idle" /\ inbox[c] = <<>>)

\* C7: when the replica has run its handshake against a primary and the
\* primary has handled all it received, the primary has executed exactly
\* PING, REPLCONF listening-port, REPLCONF capa psync2 and PSYNC ? -1, in
\* this order, its handler is alive, and the last bytes it wrote are
\* +FULLRESYNC and the snapshot.
C7_PrimaryObservesHandshake ==
    (role = "Primary" /\ hs.peer = "server" /\ hs.pc = "done" /\ HandlerAtRest(HsConn))
        => /\ hs.seen = HsCommands
           /\ h[HsConn].pc = "idle"
           /\ wire[HsConn] = FullResyncLine(PrimaryReplId, 0) \o RdbHeader \o EmptyRdb

----------------------------------------------------------------------------
(* Properties of replication.                                              *)

\* Every handler has handled what it received and every fan-out task has ended
Quiescent ==
    /\ \A c \in Conns : h[c].pc = "closed" \/ HandlerAtRest(c)
    /\ \A i \in DOMAIN tasks : tasks[i].pc \in {"done", "panicked"}

\* The request a client sends for a Set without expiry, which a replica is
\* to receive again
SetBytes(cmd) == Request(<<T_SET, cmd.a, cmd.b>>)

RECURSIVE ExpectedFanout(_, _)
\* The arrays connection r is to receive for the commits cs, in commit order
ExpectedFanout(cs, r) ==
    IF cs = <<>> THEN <<>>
    ELSE (IF r \in Head(cs).regs THEN SetBytes(Head(cs).cmd) ELSE <<>>)
         \o ExpectedFanout(Tail(cs), r)

\* C1: on a primary with R registered replica connections, one executed Set
\* results in exactly R outbound arrays, one on each registered connection
\* and none elsewhere, each identical to the received SET.
C1_SetReachesEveryReplica ==
    (role = "Primary" /\ Quiescent /\ Len(commits) = 1)
        => \A r \in Conns :
              fanout[r] = IF r \in commits[1].regs THEN SetBytes(commits[1].cmd) ELSE <<>>

\* C2: on a primary with a single replica stream, the Sets are written to
\* that stream in the order in which they were committed.
C2_FanoutInCommitOrder ==
    \A r \in Conns :
        (role = "Primary" /\ Quiescent /\ registered = {r})
            => fanout[r] = ExpectedFanout(commits, r)

\* The replica streams an instance holds
ReplicaStreams(i) == {i.replica_stream[j] : j \in DOMAIN i.replica_stream}

\* C3: every connection on which a primary has executed PSYNC is among the
\* replica streams seen by a Set executed on any connection.
C3_RegistrationsVisibleToSet ==
    \A c \in Conns :
        (role = "Primary" /\ h[c].pc = "execute" /\ Cur(c).op = "Set")
            => registered \subseteq ReplicaStreams(inst[c])

\* C4: when a primary has executed PSYNC, the bytes it has written on the
\* connection are the +FULLRESYNC line, then $<len> CRLF, then the len
\* bytes of the snapshot, and nothing else.
C4_FullResyncThenSnapshot ==
    \A c \in Conns :
        (role = "Primary" /\ h[c].pc = "ret" /\ Cur(c).op = "Psync")
            => wire[c] = FullResyncLine(PrimaryReplId, 0)
                           \o <<36>> \o Decimal(Len(EmptyRdb)) \o CRLF \o EmptyRdb

\* C8: on a replica, a Set arriving on the connection to the primary is
\* applied to the keyspace, and no bytes are written back on that connection.
C8_NoReplyOnMasterStream ==
    (role = "Replica" /\ h[MasterConn].pc \in {"lock_stream", "write_resp", "ret"}
       /\ Cur(MasterConn).op = "Set")
        => /\ Cur(MasterConn).a \in DOMAIN db
           /\ wire[MasterConn] = <<>>

----------------------------------------------------------------------------
(* Properties of the RESP codec.                                           *)

\* The call of Command::deserialize has returned or panicked
Decoded == call.fn = "Command::deserialize"

\* The commands of the requests of p, each decoded on its own, in order
RECURSIVE CommandsOfEach(_)
CommandsOfEach(p) ==
    IF p = <<>> THEN <<>>
    ELSE CommandDeserialize(Head(p), now).cmds \o CommandsOfEach(Tail(p))

\* C13: decoding a buffer that holds k >= 1 request arrays one after the
\* other yields the commands of all k arrays, in the order of the buffer.
C13_PipelinedRequestsAllDecoded ==
    Decoded =>
        \A p \in PipeSeqs :
            call.req = Concat(p) =>
                /\ ~call.out.panic
                /\ call.out.cmds = CommandsOfEach(p)

\* C14: for every array header *N with N >= 0 the decoder makes exactly the
\* next N frames the elements of the array and leaves every frame that
\* follows outside it, also for N = 0 and when an element is the null bulk
\* string or an array.
C14_ArrayTakesExactlyItsElements ==
    call.fn = "RedisDataType::parse_req" =>
        \A items \in ElementLists, rest \in Followers :
            call.req = ArrayBuffer(items, rest) =>
                /\ ~call.out.panic
                /\ Len(call.out.items) = 1 + Len(rest)
                /\ call.out.items[1].t = "Array"
                /\ Len(call.out.items[1].a) = Len(items)
                /\ \A j \in 1..Len(items) :
                      items[j].t # "Null" => call.out.items[1].a[j] = items[j]
                /\ Tail(call.out.items) = rest

\* C15: when a bulk header $N is followed by a payload whose length is not
\* N, the handler abandons the buffer: its task stays alive and reads again,
\* and it executes no command of the buffer and writes no reply to it.
C15_LengthMismatchAbandonsBuffer ==
    \A c \in ClientConns :
        h[c].req \in MismatchBuffers =>
            /\ h[c].pc = "idle"
            /\ h[c].queue = <<>>
            /\ wire[c] = <<>>

\* C16: for every verb of the vocabulary and for the PX option of SET,
\* every upper/lower-case spelling of the token is parsed to the command
\* the all-upper-case spelling is parsed to.
C16_VerbsCaseInsensitive ==
    Decoded =>
        \A v \in VerbForms, f \in Spellings :
            call.req = SpelledRequest(v, f) =>
                call.out = CommandDeserialize(SpelledRequest(v, "upper"), now)

\* The elements of a sequence
Range(seq) == {seq[i] : i \in 1..Len(seq)}

\* C17: every command the parser emits has its arguments from the request
\* array of its verb, and for a request array with fewer elements than the
\* arity of its verb the parser returns an error to its caller and emits no
\* command.
C17_ShortRequestIsAnError ==
    Decoded =>
        /\ \A toks \in ShortArgs \cup FullArgs :
              call.req = Request(toks) =>
                  \A i \in 1..Len(call.out.cmds) :
                      /\ call.out.cmds[i].a \in Range(toks) \cup {<<>>, T_all}
                      /\ call.out.cmds[i].b \in Range(toks) \cup {<<>>}
        /\ call.req \in ShortRequests => (~call.out.panic /\ call.out.cmds = <<>>)

\* C18: a request array whose first element is no verb of the vocabulary
\* is skipped as a whole: it yields no command, and so no reply, whatever
\* its other elements are, elements that spell a verb included.
C18_UnknownVerbSkipsRequest ==
    (Decoded /\ call.req \in UnknownRequests) =>
        (~call.out.panic /\ call.out.cmds = <<>>)

\* C32: a request array whose first element is a verb, with all the elements
\* of the verb, yields exactly one command: no element after the verb is
\* taken as a verb, neither the section of INFO nor an element more than the
\* verb takes
C32_OneCommandPerRequest ==
    (Decoded /\ call.req \in TrailingRequests) =>
        (~call.out.panic /\ Len(call.out.cmds) = 1)

\* C19: for every frame shape the server replies with (simple string, bulk
\* string, null bulk string, array of bulk strings, the empty array
\* included), decoding the bytes of the frame gives the frame back.
C19_DecodeInvertsEncode ==
    call.fn = "RedisDataType::deserialize" =>
        (~call.out.panic /\ call.out.v = call.frame)

----------------------------------------------------------------------------
(* Properties of the snapshot reader.                                      *)

\* How many bytes follow a length byte with high bits 11 and low 6 bits low
SpecialWidth(low) == IF low = 0 THEN 1 ELSE IF low = 1 THEN 2 ELSE 4

\* C20: for a length byte whose high two bits are 11, the reader consumes
\* exactly 1 following byte when the low 6 bits are 0, 2 when they are 1 and
\* 4 when they are 2, and yields the integer these bytes encode (in either
\* byte order); for any other low 6 bits it returns an error.
C20_SpecialEncodingWidths ==
    (call.fn \in {"RDBLenEncodings::from_u8", "StringEncoding::from_u8"}
        /\ call.req[1] \div 64 = 3) =>
        LET low == call.req[1] % 64
            n == SpecialWidth(low)
            following == SubSeq(call.req, 2, 1 + n)
        IN IF low > 2 THEN ~call.out.ok
           ELSE Len(call.req) >= 1 + n =>
                    /\ call.out.ok
                    /\ call.out.used = 1 + n
                    /\ call.out.val \in {BigEndian(following), LittleEndian(following)}

\* The maps a dump file with the entries es holds: the values, and the
\* expiries in milliseconds since the epoch
RECURSIVE ValuesOf(_)
ValuesOf(es) ==
    IF es = <<>> THEN EmptyMap
    ELSE LET e == es[Len(es)]
         IN Put(ValuesOf(SubSeq(es, 1, Len(es) - 1)), e.k, e.v)
RECURSIVE ExpiriesOf(_)
ExpiriesOf(es) ==
    IF es = <<>> THEN EmptyMap
    ELSE LET e == es[Len(es)]
             m == ExpiriesOf(SubSeq(es, 1, Len(es) - 1))
         IN IF e.exp = <<>> THEN m
            ELSE Put(m, e.k, IF e.exp[1] = "s" THEN 1000 * e.exp[2] ELSE e.exp[2])

\* C21: a snapshot entry preceded by an ExpireTime opcode (0xFD, 4 bytes of
\* seconds) or an ExpireTimeMs opcode (0xFC, 8 bytes of milliseconds) is
\* read successfully: key and value enter the value map, the key is mapped
\* to the epoch plus that time in the expiry map, and no other entry gets
\* the expiry.
C21_ExpiryEntriesAreRead ==
    call.fn = "RedisDB::read_rdb" =>
        \A es \in EntryLists :
            call.req = RdbFile(es) =>
                /\ call.out.st = "ok"
                /\ call.out.kivals = ValuesOf(es)
                /\ call.out.exp_map = ExpiriesOf(es)

\* C33: read_rdb on the bytes of the empty snapshot that send_emtpy_rdb
\* sends returns Ok of an empty value map and an empty expiry map
C33_EmptySnapshotIsRead ==
    (call.fn = "RedisDB::read_rdb" /\ call.req = EmptyRdb) =>
        /\ call.out.st = "ok"
        /\ call.out.kivals = EmptyMap
        /\ call.out.exp_map = EmptyMap

\* C22: for every byte sequence given as the dump file, read_rdb returns
\* the two maps or returns an error; a bad magic string, a file shorter
\* than its header, bytes missing in an expiry or a string, an unsupported
\* value type and a malformed length each give an error return, never a
\* panic.
C22_ReadRdbReturnsOrErrs ==
    call.fn = "RedisDB::read_rdb" =>
        /\ call.out.st \in {"ok", "err"}
        /\ call.req \in BrokenFiles => call.out.st = "err"

----------------------------------------------------------------------------
(* Properties of the connection handler of main.rs, checked under SpecMain *)

\* C23: a handler whose read returned zero bytes, or failed with an error
\* that is not transient, has terminated; it retries only after a transient
\* error
C23_ReadEndTerminatesHandler ==
    \A c \in MainConns : h[c].rd \in {"eof", "hard_err"} => h[c].pc = "done"

\* The replies to the requests of the buffer the handler of c has read, each
\* request processed on its own, in the order of the requests
RepliesInOrder(c) ==
    LET items == MainDecode(h[c].req).items
    IN Concat([r \in 1..Len(items) |-> ProcessReq(<<items[r]>>, 1, <<>>)])

----------------------------------------------------------------------------
(* Properties of write and of the locks around it, checked under SpecWrite *)

\* C24: a task whose try_write has failed with an I/O error has terminated:
\* write does not go on trying on a socket whose writes fail
C24_WriteErrorTerminatesTask ==
    \A c \in ClientConns : h[c].rd = "write_err" => h[c].pc = "dead"

\* The handler of c is suspended in write, at stream.writable().await
InWritable(c) == h[c].pc \in {"write_resp", "write_hdr", "write_rdb"}

\* C26: no task holds the mutex of a shared connection (nor that of db, exp
\* or config) while it waits for a socket to become readable or writable
C26_NoLockAcrossSocketWait ==
    \A c \in ClientConns :
        InWritable(c) => /\ streamLock[c] # <<0>>
                         /\ dbLock # <<c>>
                         /\ expLock # <<c>>

\* C29: when write(stream, bytes) has returned, the stream has received
\* exactly bytes, once and in order, also after partial writes
C29_WritePutsBytesOnce ==
    \A c \in ClientConns : h[c].pc = "ret" => wire[c] = h[c].resp

----------------------------------------------------------------------------
(* Frame properties of the commands, checked under SpecFrame               *)

\* The maps m and m2 agree at every key but k
SameExcept(m, m2, k) ==
    \A x \in (DOMAIN m \cup DOMAIN m2) \ {k} : Lookup(m, x) = Lookup(m2, x)

\* The handler of c takes this step, executing command op
Executes(c, op) == h'[c] # h[c] /\ h[c].queue # <<>> /\ Cur(c).op = op

\* C27: a step of set(k, v, none) leaves the expiry map as it is, an expiry
\* stored for k included, and a step of set(k, v, e) changes the expiry map
\* at k only
C27_SetFramesExpiryMap ==
    [][\A c \in FrameConns :
          Executes(c, "Set") /\ h[c].pc \in {"execute", "set_exp"} =>
              IF Cur(c).exp = <<>> THEN exp' = exp
              ELSE SameExcept(exp, exp', Cur(c).a)]_vars

\* set(k, v, none) has run while an expiry is stored for k and for another key
C27_Witness ==
    \E c \in FrameConns :
        /\ h[c].pc = "lock_stream"
        /\ h[c].queue # <<>>
        /\ Cur(c).op = "Set"
        /\ Cur(c).exp = <<>>
        /\ Cur(c).a \in DOMAIN exp
        /\ DOMAIN exp = KeySet

\* C28: once Redis::new has returned, no step changes the config map, and a
\* step that changes the value map or the expiry map is a step of Set, which
\* changes them at its key only and leaves the key with its value, or a step
\* of Get on a key whose expiry has passed, which removes that key from both
C28_OnlySetAndGetChangeMaps ==
    [][started =>
          /\ config' = config
          /\ (db' # db \/ exp' # exp) =>
                \E c \in FrameConns :
                    LET k == Cur(c).a
                    IN \/ /\ Executes(c, "Set")
                          /\ SameExcept(db, db', k)
                          /\ SameExcept(exp, exp', k)
                          /\ Lookup(db', k) = <<Cur(c).b>>
                       \/ /\ Executes(c, "Get")
                          /\ k \in DOMAIN exp
                          /\ exp[k] < now
                          /\ db' = Remove(db, k)
                          /\ exp' = Remove(exp, k)]_vars

\* A get has found the expiry of its key passed and has removed the key
\* from both maps
C28_Witness ==
    \E c \in FrameConns :
        /\ h[c].pc = "ret"
        /\ Cur(c).op = "Get"
        /\ obs[c] # <<>>
        /\ obs[c][1].exp # <<>>
        /\ obs[c][1].res = <<>>
        /\ Cur(c).a \notin DOMAIN db
        /\ Cur(c).a \notin DOMAIN exp

----------------------------------------------------------------------------
(* The locks of get and set, checked under Spec                            *)

\* C30: never do two tasks wait for each other: a get that holds the lock of
\* the expiry map and waits for that of the value map, and a set that holds
\* the lock of the value map and waits for that of the expiry map
C30_GetAndSetAllComplete ==
    ~ \E c, d \in ClientConns :
        /\ h[c].pc = "get_db" /\ expLock = <<c>>
        /\ h[d].pc = "set_exp" /\ dbLock = <<d>>

----------------------------------------------------------------------------
(* The reply to KEYS, checked under Spec                                   *)

\* The number n of the header *<n> of an array reply
HeaderCount(reply) == ParseUnsigned(Tail(SplitCRLF(reply)[1]))[1]
\* The number of bulk strings that follow the header
BulksAfterHeader(reply) ==
    LET toks == SplitCRLF(reply)
    IN Cardinality({j \in 2..Len(toks) : toks[j] # <<>> /\ toks[j][1] = 36})

\* C31: the count in the header of every reply to KEYS is the number of bulk
\* strings that follow it, whatever the other connections do to the value
\* map while KEYS runs
C31_KeysCountMatchesKeys ==
    \A c \in ClientConns :
        (h[c].pc = "lock_stream" /\ Cur(c).op = "Keys") =>
            HeaderCount(h[c].resp) = BulksAfterHeader(h[c].resp)

==========================================================================
